---- MODULE Spec2Model ----
\* A model of pebl's reactive core: Observable / ObservablePtr and the guarded
\* views of src/src/obsv.rs, the WeakList of src/src/weak.rs and the
\* Property / PropertyPtr of src/src/property.rs, and the cached Expression of
\* src/src/expr.rs.
EXTENDS Integers, Sequences, FiniteSets, TLC

\* ------------------------------------------------------------------ bounds
NumCells == 1       \* Observable objects
NumHandlers == 2    \* InvalidationHandler objects
NumPtrs == 2        \* ObservablePtr slots
NumValues == 2      \* distinct values of T
MaxEntries == 2     \* weak entries held by all the on_invalidated lists
MaxBorrow == 2      \* shared views outstanding on one cell
NumProps == 1       \* Property objects
NumPPtrs == 2       \* PropertyPtr slots
NumOperands == 2    \* Observable objects that serve as operands of expressions
NumExprs == 2       \* Expression objects
MaxPushes == 3      \* calls of WeakList::push on the list used directly
NumBindProps == 3   \* Property objects that Bindings mirror
NumIters == 2       \* PropertyListIterator objects

Cells == 1..NumCells
Handlers == 1..NumHandlers
Ptrs == 1..NumPtrs
Values == 0..(NumValues - 1)
NoCell == 0
Props == 1..NumProps
BindProps == (NumProps + 1)..(NumProps + NumBindProps)
AllProps == 1..(NumProps + NumBindProps)
PPtrs == 1..NumPPtrs
NoProp == 0
Iters == 1..NumIters
NoIter == 0 - 1
\* The Observables of the programs with expressions: the operands, and the
\* `value` field of each Expression, which is an Observable of its own.
Operands == (NumCells + 1)..(NumCells + NumOperands)
Exprs == 1..NumExprs
ValueCell(e) == NumCells + NumOperands + e
AllCells == 1..(NumCells + NumOperands + NumExprs)
\* The InvalidationHandler an Expression creates and owns.
ExprHandler(e) == NumHandlers + e
AllHandlers == 1..(NumHandlers + NumExprs)

VARIABLES
  alive,          \* alive[c]: the Observable c has not been dropped
  handle,         \* handle[c]: strong count of ObservableData.handle (Rc<()>)
  value,          \* ObservableData.value
  borrow_counts,  \* ObservableData.borrow_counts: [immutable, mutable]
  on_invalidated, \* ObservableData.on_invalidated: sequence of Weak<Fn()>
  hAlive,         \* hAlive[h]: InvalidationHandler h (its Rc<Fn()>) is owned
  ptrTarget,      \* ObservablePtr.cell_ptr / valid_handle: the cell pointed to
  refs,           \* refs[p]: ObservableRef views outstanding, taken from p
  mutref,         \* mutref[p]: an ObservableMutRef taken from p is outstanding
  modify,         \* modify[c]: a ModifyInnerRef of c is outstanding
  fired,          \* fired[h]: invocations of h's callback by the last operation
  pAlive,         \* pAlive[q]: the Property q has not been dropped
  pValue,         \* Property.value_cell
  pCounts,        \* the BorrowCounts inside Property.borrow_counts
  pRc,            \* strong count of Property.borrow_counts (Rc<RefCell<..>>)
  pptrTarget,     \* PropertyPtr.value_cell_ptr / weak_borrow_counts
  pRefs,          \* pRefs[pp]: PropertyRef views outstanding, taken from pp
  pMut,           \* pMut[pp]: a PropertyMutRef taken from pp is outstanding
  built,          \* built[e]: the Expression e has been constructed
  targets,        \* Expression.targets: the cells its ObservablePtrs point to
  resolve,        \* Expression.resolve: the closure it was constructed with
  dirty,          \* Expression.dirty
  tree,           \* the composite expression node (expr/mod.rs) a program built
  weak_items,     \* WeakList.items of a list a program uses directly
  pushed,         \* every referent ever pushed onto that list, in order
  plist,          \* PropertyList.items: the targets of its PropertyPtrs
  update_callbacks, \* Bindings.update_callbacks: dest |-> src of its closure
  released,       \* the dests whose binding was removed and not set up again
  handlers,       \* Listeners.handlers: the InvalidationHandlers it owns
  chain,          \* chain[h]: the targets listed for handler h,
                  \* while the Listeners own h
  binding,        \* the Property in hand is bound to the node in tree
  field,          \* the local value of that Property
  callback,       \* callback[h]: the closure InvalidationHandler h wraps
  index,          \* PropertyListIterator.index, NoIter when it does not exist
  started,        \* started[i]: PropertyList.items when iterator i was made
  yielded,        \* yielded[i]: what the calls of next on i returned so far,
                  \* both kept while the iterator exists
  panic,          \* "none", or the message of the panic that ended the run
  last            \* the last operation: [op, cell, ptr, arg, res, dead,
                  \*                      runs, views, text, again, list]

obsvVars == <<alive, handle, value, borrow_counts, on_invalidated, hAlive,
              ptrTarget, refs, mutref, modify, fired>>
propVars == <<pAlive, pValue, pCounts, pRc, pptrTarget, pRefs, pMut>>
exprVars == <<built, targets, dirty, resolve>>
treeVars == <<tree>>
listVars == <<weak_items, pushed, plist>>
bindVars == <<update_callbacks, released>>
listenVars == <<handlers, chain>>
boundVars == <<binding, field>>
callVars == <<callback>>
iterVars == <<index, started, yielded>>
vars == <<obsvVars, propVars, exprVars, treeVars, listVars, bindVars,
         listenVars, boundVars, callVars, iterVars, panic, last>>

NoPanic == "none"
MutablyBorrowed == "value already mutably borrowed"
ImmutablyBorrowed == "value already immutably borrowed"
InvalidRelease == "invalid immutable release borrow"
InvalidReleaseMut == "invalid mutable release borrow"
PropMutablyBorrowed == "property already mutably borrowed"
PropImmutablyBorrowed == "property already immutably borrowed"
UnwrapNone == "called Option::unwrap() on a None value"
UseAfterFree == "access to freed memory"

NoTree == [type |-> "none"]
NoFired == [h \in AllHandlers |-> 0]
\* The closure of a handler that only counts its calls.
Counter == [kind |-> "count", cell |-> NoCell, val |-> 0]
\* runs: calls of an Expression's resolve or of a node's f; views: guarded
\* views taken; text: the String an operation returned; again: the operation
\* is a get of a node that directly follows a get of that node; list: the
\* Vec of referents an operation returned.
Op(op, c, p, a, r) ==
  [op |-> op, cell |-> c, ptr |-> p, arg |-> a, res |-> r, dead |-> 0,
   runs |-> 0, views |-> 0, text |-> "", again |-> FALSE,
   list |-> <<>>]
\* The same for an operation that notifies: dead entries found in the list.
OpFire(op, c, p, a, r, items) ==
  [op |-> op, cell |-> c, ptr |-> p, arg |-> a, res |-> r,
   dead |-> Len(items) - Len(SelectSeq(items, LAMBDA h : hAlive[h])),
   runs |-> 0, views |-> 0, text |-> "", again |-> FALSE,
   list |-> <<>>]

Count(h, s) == Cardinality({i \in DOMAIN s : s[i] = h})

\* ------------------------------------------------------------ BorrowCounts
BorrowCounts_new == [immutable |-> 0, mutable |-> FALSE]

count_borrow_NoCheck(bc) ==
  [msg |-> NoPanic, bc |-> [bc EXCEPT !.immutable = @ + 1]]

count_borrow(bc) ==
  IF bc.mutable
    THEN [msg |-> MutablyBorrowed, bc |-> bc]
    ELSE [msg |-> NoPanic, bc |-> [bc EXCEPT !.immutable = @ + 1]]

count_borrow_mut_NoSharedCheck(bc) ==
  IF bc.mutable
    THEN [msg |-> MutablyBorrowed, bc |-> bc]
    ELSE [msg |-> NoPanic, bc |-> [bc EXCEPT !.mutable = TRUE]]

count_borrow_mut(bc) ==
  IF bc.mutable
    THEN [msg |-> MutablyBorrowed, bc |-> bc]
    ELSE IF bc.immutable > 0
      THEN [msg |-> ImmutablyBorrowed, bc |-> bc]
      ELSE [msg |-> NoPanic, bc |-> [bc EXCEPT !.mutable = TRUE]]

count_unborrow_NoDecrement(bc) ==
  IF bc.immutable = 0
    THEN [msg |-> InvalidRelease, bc |-> bc]
    ELSE [msg |-> NoPanic, bc |-> bc]

count_unborrow(bc) ==
  IF bc.immutable = 0
    THEN [msg |-> InvalidRelease, bc |-> bc]
    ELSE [msg |-> NoPanic, bc |-> [bc EXCEPT !.immutable = @ - 1]]

count_unborrow_mut(bc) ==
  IF ~bc.mutable
    THEN [msg |-> InvalidReleaseMut, bc |-> bc]
    ELSE [msg |-> NoPanic, bc |-> [bc EXCEPT !.mutable = FALSE]]

\* ---------------------------------------------------------------- WeakList
\* Weak<T>::upgrade on the entry of handler h succeeds iff h is still owned.
clean(items) == SelectSeq(items, LAMBDA h : hAlive[h])

upgrade_KeepDead(items) == items

upgrade(items) == SelectSeq(clean(items), LAMBDA h : hAlive[h])

len_no_clean(items) == Len(items)

\* ---------------------------------------------------------- ObservableData
\* The callbacks of the handlers are counters: fired[h] counts the calls.
fire_invalidated(c) ==
  [items |-> clean(on_invalidated[c]),
   fired |-> [h \in AllHandlers |-> Count(h, upgrade(on_invalidated[c]))]]

Invalidated_Never(f) == dirty

\* The callback of an Expression's handler: dirty.set(true) (expr.rs, new).
\* f[h] is the number of calls of handler h.
Invalidated(f) == [e \in Exprs |-> dirty[e] \/ f[ExprHandler(e)] > 0]

ObservableData_set_NoCompare(c, v) ==
  [value |-> v, items |-> fire_invalidated(c).items,
   fired |-> fire_invalidated(c).fired]

ObservableData_set(c, v) ==
  IF value[c] # v
    THEN [value |-> v, items |-> fire_invalidated(c).items,
          fired |-> fire_invalidated(c).fired]
    ELSE [value |-> value[c], items |-> on_invalidated[c], fired |-> NoFired]

\* ----------------------------------------------------------- ObservablePtr
can_deref_Always(p) == TRUE

can_deref(p) == handle[ptrTarget[p]] > 0

\* ----------------------------------------------------------------- history
RECURSIVE SumRefs(_, _)
SumRefs(c, n) ==
  IF n = 0 THEN 0
  ELSE SumRefs(c, n - 1) + (IF ptrTarget[n] = c THEN refs[n] ELSE 0)

RECURSIVE SumEntries(_)
SumEntries(n) ==
  IF n = 0 THEN 0 ELSE SumEntries(n - 1) + Len(on_invalidated[n])

\* Views of cell c that are outstanding.
SharedViews(c) == SumRefs(c, NumPtrs)
ExclusiveView(c) ==
  modify[c] \/ \E p \in Ptrs : ptrTarget[p] = c /\ mutref[p]

Init ==
  /\ alive = [c \in AllCells |-> c \in Cells \cup Operands]
  /\ handle = [c \in AllCells |-> IF c \in Cells \cup Operands THEN 1 ELSE 0]
  /\ value = [c \in AllCells |-> 0]
  /\ borrow_counts = [c \in AllCells |-> BorrowCounts_new]
  /\ on_invalidated = [c \in AllCells |-> <<>>]
  /\ hAlive = [h \in AllHandlers |-> h \in Handlers]
  /\ ptrTarget = [p \in Ptrs |-> NoCell]
  /\ refs = [p \in Ptrs |-> 0]
  /\ mutref = [p \in Ptrs |-> FALSE]
  /\ modify = [c \in AllCells |-> FALSE]
  /\ fired = NoFired
  /\ pAlive = [q \in AllProps |-> TRUE]
  /\ pValue = [q \in AllProps |-> 0]
  /\ pCounts = [q \in AllProps |-> BorrowCounts_new]
  /\ pRc = [q \in AllProps |-> 1]
  /\ pptrTarget = [pp \in PPtrs |-> NoProp]
  /\ pRefs = [pp \in PPtrs |-> 0]
  /\ pMut = [pp \in PPtrs |-> FALSE]
  /\ built = [e \in Exprs |-> FALSE]
  /\ targets = [e \in Exprs |-> <<>>]
  /\ resolve = [e \in Exprs |-> "sum"]
  /\ dirty = [e \in Exprs |-> FALSE]
  /\ tree = NoTree
  /\ weak_items = <<>>
  /\ pushed = <<>>
  /\ plist = <<>>
  /\ update_callbacks = [q \in AllProps |-> NoProp]
  /\ released = {}
  /\ handlers = <<>>
  /\ binding = FALSE
  /\ index = [i \in Iters |-> NoIter]
  /\ started = [i \in Iters |-> <<>>]
  /\ yielded = [i \in Iters |-> <<>>]
  /\ callback = [h \in Handlers |-> Counter]
  /\ field = 0
  /\ chain = [h \in AllHandlers |-> <<>>]
  /\ panic = NoPanic
  /\ last = Op("init", NoCell, 0, 0, "none")

\* What the compiler's borrow checker lets safe code do: a view borrows the
\* pointer it was taken from (shared for ObservableRef, exclusive for
\* ObservableMutRef), a ModifyInnerRef borrows its Observable exclusively.
PtrFree(p) == ~mutref[p] /\ refs[p] = 0
CellFree(c) == alive[c] /\ ~modify[c]

\* --------------------------------------------------------------- operations
\* ObservablePtr::new(&target)
ObservablePtr_new(p, c) ==
  /\ panic = NoPanic /\ ptrTarget[p] = NoCell /\ CellFree(c)
  /\ ptrTarget' = [ptrTarget EXCEPT ![p] = c]
  /\ fired' = NoFired
  /\ last' = Op("ptr_new", c, p, 0, "ok")
  /\ UNCHANGED <<propVars, exprVars, treeVars, listVars, bindVars,
                 listenVars, boundVars, callVars, iterVars>>
  /\ UNCHANGED <<alive, handle, value, borrow_counts, on_invalidated, hAlive,
                 refs, mutref, modify, panic>>

\* Clone for ObservablePtr
ObservablePtr_clone(p, q) ==
  /\ panic = NoPanic /\ ptrTarget[p] # NoCell /\ ~mutref[p]
  /\ ptrTarget[q] = NoCell
  /\ ptrTarget' = [ptrTarget EXCEPT ![q] = ptrTarget[p]]
  /\ fired' = NoFired
  /\ last' = Op("ptr_clone", ptrTarget[p], q, 0, "ok")
  /\ UNCHANGED <<propVars, exprVars, treeVars, listVars, bindVars,
                 listenVars, boundVars, callVars, iterVars>>
  /\ UNCHANGED <<alive, handle, value, borrow_counts, on_invalidated, hAlive,
                 refs, mutref, modify, panic>>

\* Observable::get
Observable_get(c) ==
  /\ panic = NoPanic /\ CellFree(c)
  /\ fired' = NoFired
  /\ last' = Op("get", c, 0, value[c], "ok")
  /\ UNCHANGED <<propVars, exprVars, treeVars, listVars, bindVars,
                 listenVars, boundVars, callVars, iterVars>>
  /\ UNCHANGED <<alive, handle, value, borrow_counts, on_invalidated, hAlive,
                 ptrTarget, refs, mutref, modify, panic>>

\* Observable::set
Observable_set(c, v) ==
  /\ panic = NoPanic /\ CellFree(c)
  /\ LET r == ObservableData_set(c, v) IN
       /\ value' = [value EXCEPT ![c] = r.value]
       /\ on_invalidated' = [on_invalidated EXCEPT ![c] = r.items]
       /\ fired' = r.fired
       /\ dirty' = Invalidated(r.fired)
  /\ last' = OpFire("set", c, 0, v, "ok", on_invalidated[c])
  /\ UNCHANGED <<propVars, built, targets, resolve, treeVars, listVars,
                 bindVars, listenVars, boundVars, callVars, iterVars>>
  /\ UNCHANGED <<alive, handle, borrow_counts, hAlive, ptrTarget, refs,
                 mutref, modify, panic>>

\* Observable::add_invalidation_handler
Observable_add_invalidation_handler(c, h) ==
  /\ panic = NoPanic /\ CellFree(c) /\ hAlive[h]
  /\ SumEntries(NumCells) < MaxEntries
  /\ on_invalidated' = [on_invalidated EXCEPT ![c] = Append(@, h)]
  /\ fired' = NoFired
  /\ last' = Op("add_handler", c, 0, h, "ok")
  /\ UNCHANGED <<propVars, exprVars, treeVars, listVars, bindVars,
                 listenVars, boundVars, callVars, iterVars>>
  /\ UNCHANGED <<alive, handle, value, borrow_counts, hAlive, ptrTarget,
                 refs, mutref, modify, panic>>

\* drop(InvalidationHandler): the only strong owner of the callback goes away.
InvalidationHandler_drop(h) ==
  /\ panic = NoPanic /\ hAlive[h]
  /\ hAlive' = [hAlive EXCEPT ![h] = FALSE]
  /\ fired' = NoFired
  /\ last' = Op("handler_drop", NoCell, 0, h, "ok")
  /\ UNCHANGED <<propVars, exprVars, treeVars, listVars, bindVars,
                 listenVars, boundVars, callVars, iterVars>>
  /\ UNCHANGED <<alive, handle, value, borrow_counts, on_invalidated,
                 ptrTarget, refs, mutref, modify, panic>>

\* Drop for ObservableData, then the drop of its fields: the handle, and the
\* list with its entries.
Observable_drop_NoFire(c) ==
  /\ panic = NoPanic /\ CellFree(c)
  /\ fired' = NoFired
  /\ alive' = [alive EXCEPT ![c] = FALSE]
  /\ handle' = [handle EXCEPT ![c] = 0]
  /\ last' = Op("drop", c, 0, 0, "ok")
  /\ UNCHANGED <<propVars, exprVars, treeVars, listVars, bindVars,
                 listenVars, boundVars, callVars, iterVars>>
  /\ on_invalidated' = [on_invalidated EXCEPT ![c] = <<>>]
  /\ UNCHANGED <<value, borrow_counts, hAlive, ptrTarget, refs, mutref,
                 modify, panic>>

Observable_drop(c) ==
  /\ panic = NoPanic /\ CellFree(c)
  /\ LET r == fire_invalidated(c) IN
       /\ on_invalidated' = [on_invalidated EXCEPT ![c] = <<>>]
       /\ fired' = r.fired
       /\ dirty' = Invalidated(r.fired)
  /\ alive' = [alive EXCEPT ![c] = FALSE]
  /\ handle' = [handle EXCEPT ![c] = 0]
  /\ last' = OpFire("drop", c, 0, 0, "ok", on_invalidated[c])
  /\ UNCHANGED <<propVars, built, targets, resolve, treeVars, listVars,
                 bindVars, listenVars, boundVars, callVars, iterVars>>
  /\ UNCHANGED <<value, borrow_counts, hAlive, ptrTarget, refs, mutref,
                 modify, panic>>

\* Observable::modify_inner -> ModifyInnerRef::new
Observable_modify_inner(c) ==
  /\ panic = NoPanic /\ CellFree(c)
  /\ LET r == count_borrow_mut(borrow_counts[c]) IN
       /\ borrow_counts' = [borrow_counts EXCEPT ![c] = r.bc]
       /\ panic' = r.msg
       /\ modify' = [modify EXCEPT ![c] = (r.msg = NoPanic)]
       /\ last' = Op("modify_inner", c, 0, 0,
                     IF r.msg = NoPanic THEN "ok" ELSE "panic")
  /\ fired' = NoFired
  /\ UNCHANGED <<propVars, exprVars, treeVars, listVars, bindVars,
                 listenVars, boundVars, callVars, iterVars>>
  /\ UNCHANGED <<alive, handle, value, on_invalidated, hAlive, ptrTarget,
                 refs, mutref>>

\* DerefMut for ModifyInnerRef: a write through the view, of any value.
ModifyInnerRef_deref_mut(c, v) ==
  /\ panic = NoPanic /\ modify[c]
  /\ value' = [value EXCEPT ![c] = v]
  /\ fired' = NoFired
  /\ last' = Op("modify_write", c, 0, v, "ok")
  /\ UNCHANGED <<propVars, exprVars, treeVars, listVars, bindVars,
                 listenVars, boundVars, callVars, iterVars>>
  /\ UNCHANGED <<alive, handle, borrow_counts, on_invalidated, hAlive,
                 ptrTarget, refs, mutref, modify, panic>>

\* last.arg of a release: 0 when the view is released right after it was
\* created (nothing was written through it), 1 otherwise.
Touched(c) == IF last.op = "modify_inner" /\ last.cell = c THEN 0 ELSE 1

\* Drop for ModifyInnerRef
ModifyInnerRef_drop_NoFire(c) ==
  /\ panic = NoPanic /\ modify[c]
  /\ LET r == count_unborrow_mut(borrow_counts[c]) IN
       /\ borrow_counts' = [borrow_counts EXCEPT ![c] = r.bc]
       /\ panic' = r.msg
  /\ fired' = NoFired
  /\ modify' = [modify EXCEPT ![c] = FALSE]
  /\ last' = Op("modify_release", c, 0, Touched(c), "ok")
  /\ UNCHANGED <<propVars, exprVars, treeVars, listVars, bindVars,
                 listenVars, boundVars, callVars, iterVars>>
  /\ UNCHANGED <<alive, handle, value, on_invalidated, hAlive, ptrTarget,
                 refs, mutref>>

ModifyInnerRef_drop(c) ==
  /\ panic = NoPanic /\ modify[c]
  /\ LET r == count_unborrow_mut(borrow_counts[c])
         f == IF r.msg = NoPanic THEN fire_invalidated(c)
              ELSE [items |-> on_invalidated[c], fired |-> NoFired]
     IN
       /\ borrow_counts' = [borrow_counts EXCEPT ![c] = r.bc]
       /\ panic' = r.msg
       /\ on_invalidated' = [on_invalidated EXCEPT ![c] = f.items]
       /\ fired' = f.fired
       /\ dirty' = Invalidated(f.fired)
  /\ modify' = [modify EXCEPT ![c] = FALSE]
  /\ last' = OpFire("modify_release", c, 0, Touched(c), "ok",
                    on_invalidated[c])
  /\ UNCHANGED <<propVars, built, targets, resolve, treeVars, listVars,
                 bindVars, listenVars, boundVars, callVars, iterVars>>
  /\ UNCHANGED <<alive, handle, value, hAlive, ptrTarget, refs, mutref>>

\* ObservablePtr::try_deref with ObservableRef::new: the Option returned, the
\* panic raised and the borrow counts left behind.
try_deref(p) ==
  IF can_deref(p)
    THEN LET r == count_borrow(borrow_counts[ptrTarget[p]]) IN
           [res |-> IF r.msg = NoPanic THEN "Some" ELSE "panic",
            msg |-> r.msg, bc |-> r.bc]
    ELSE [res |-> "None", msg |-> NoPanic, bc |-> borrow_counts[ptrTarget[p]]]

\* ObservablePtr::try_deref_mut with ObservableMutRef::new
try_deref_mut(p) ==
  IF can_deref(p)
    THEN LET r == count_borrow_mut(borrow_counts[ptrTarget[p]]) IN
           [res |-> IF r.msg = NoPanic THEN "Some" ELSE "panic",
            msg |-> r.msg, bc |-> r.bc]
    ELSE [res |-> "None", msg |-> NoPanic, bc |-> borrow_counts[ptrTarget[p]]]

\* Option::unwrap
unwrap(r) ==
  IF r.res = "None" THEN [r EXCEPT !.res = "panic", !.msg = UnwrapNone] ELSE r

\* ObservablePtr::deref
deref(p) == unwrap(try_deref(p))

\* ObservablePtr::deref_mut
deref_mut(p) == unwrap(try_deref_mut(p))

\* The caller side of a shared acquisition through p with outcome r.
AcquireShared(p, op, r) ==
  /\ panic = NoPanic /\ ptrTarget[p] # NoCell /\ ~mutref[p]
  /\ SharedViews(ptrTarget[p]) < MaxBorrow
  /\ borrow_counts' = [borrow_counts EXCEPT ![ptrTarget[p]] = r.bc]
  /\ panic' = r.msg
  /\ refs' = [refs EXCEPT ![p] = IF r.res = "Some" THEN @ + 1 ELSE @]
  /\ fired' = NoFired
  /\ last' = Op(op, ptrTarget[p], p, 0, r.res)
  /\ UNCHANGED <<propVars, exprVars, treeVars, listVars, bindVars,
                 listenVars, boundVars, callVars, iterVars>>
  /\ UNCHANGED <<alive, handle, value, on_invalidated, hAlive, ptrTarget,
                 mutref, modify>>

\* The caller side of an exclusive acquisition through p with outcome r.
AcquireExclusive(p, op, r) ==
  /\ panic = NoPanic /\ ptrTarget[p] # NoCell /\ PtrFree(p)
  /\ borrow_counts' = [borrow_counts EXCEPT ![ptrTarget[p]] = r.bc]
  /\ panic' = r.msg
  /\ mutref' = [mutref EXCEPT ![p] = (r.res = "Some")]
  /\ fired' = NoFired
  /\ last' = Op(op, ptrTarget[p], p, 0, r.res)
  /\ UNCHANGED <<propVars, exprVars, treeVars, listVars, bindVars,
                 listenVars, boundVars, callVars, iterVars>>
  /\ UNCHANGED <<alive, handle, value, on_invalidated, hAlive, ptrTarget,
                 refs, modify>>

ObservablePtr_try_deref(p) == AcquireShared(p, "try_deref", try_deref(p))
ObservablePtr_try_deref_mut(p) ==
  AcquireExclusive(p, "try_deref_mut", try_deref_mut(p))
ObservablePtr_deref(p) == AcquireShared(p, "deref", deref(p))
ObservablePtr_deref_mut(p) == AcquireExclusive(p, "deref_mut", deref_mut(p))

\* Drop for ObservableRef. deref_data on a dropped target is undefined
\* behaviour: the run either faults or works on the freed memory.
ObservableRef_drop(p) ==
  /\ panic = NoPanic /\ refs[p] > 0
  /\ refs' = [refs EXCEPT ![p] = @ - 1]
  /\ fired' = NoFired
  /\ \/ LET r == count_unborrow(borrow_counts[ptrTarget[p]]) IN
          /\ borrow_counts' = [borrow_counts EXCEPT ![ptrTarget[p]] = r.bc]
          /\ panic' = r.msg
          /\ last' = Op("ref_release", ptrTarget[p], p, 0,
                        IF r.msg = NoPanic THEN "ok" ELSE "panic")
     \/ /\ ~alive[ptrTarget[p]]
        /\ panic' = UseAfterFree
        /\ last' = Op("ref_release", ptrTarget[p], p, 0, "panic")
        /\ UNCHANGED borrow_counts
  /\ UNCHANGED <<propVars, exprVars, treeVars, listVars, bindVars,
                 listenVars, boundVars, callVars, iterVars>>
  /\ UNCHANGED <<alive, handle, value, on_invalidated, hAlive, ptrTarget,
                 mutref, modify>>

\* Drop for ObservableMutRef
ObservableMutRef_drop(p) ==
  /\ panic = NoPanic /\ mutref[p]
  /\ mutref' = [mutref EXCEPT ![p] = FALSE]
  /\ fired' = NoFired
  /\ \/ LET r == count_unborrow_mut(borrow_counts[ptrTarget[p]]) IN
          /\ borrow_counts' = [borrow_counts EXCEPT ![ptrTarget[p]] = r.bc]
          /\ panic' = r.msg
          /\ last' = Op("mut_release", ptrTarget[p], p, 0,
                        IF r.msg = NoPanic THEN "ok" ELSE "panic")
     \/ /\ ~alive[ptrTarget[p]]
        /\ panic' = UseAfterFree
        /\ last' = Op("mut_release", ptrTarget[p], p, 0, "panic")
        /\ UNCHANGED borrow_counts
  /\ UNCHANGED <<propVars, exprVars, treeVars, listVars, bindVars,
                 listenVars, boundVars, callVars, iterVars>>
  /\ UNCHANGED <<alive, handle, value, on_invalidated, hAlive, ptrTarget,
                 refs, modify>>

\* ObservableMutRef::set -> ObservablePtr::set -> ObservableData::set
ObservableMutRef_set(p, v) ==
  /\ panic = NoPanic /\ mutref[p]
  /\ \/ LET r == ObservableData_set(ptrTarget[p], v) IN
          /\ value' = [value EXCEPT ![ptrTarget[p]] = r.value]
          /\ on_invalidated' = [on_invalidated EXCEPT ![ptrTarget[p]] = r.items]
          /\ fired' = r.fired
          /\ dirty' = Invalidated(r.fired)
          /\ last' = OpFire("mutref_set", ptrTarget[p], p, v, "ok",
                            on_invalidated[ptrTarget[p]])
          /\ UNCHANGED panic
     \/ /\ ~alive[ptrTarget[p]]
        /\ panic' = UseAfterFree
        /\ fired' = NoFired
        /\ last' = Op("mutref_set", ptrTarget[p], p, v, "panic")
        /\ UNCHANGED <<value, on_invalidated, dirty>>
  /\ UNCHANGED <<propVars, built, targets, resolve, treeVars, listVars,
                 bindVars, listenVars, boundVars, callVars, iterVars>>
  /\ UNCHANGED <<alive, handle, borrow_counts, hAlive, ptrTarget, refs,
                 mutref, modify>>

\* ObservableMutRef::modify_inner -> ObservablePtr::modify_inner ->
\* ModifyInnerRef::new, which counts a second exclusive borrow on the cell
\* the ObservableMutRef already holds exclusively.
ObservableMutRef_modify_inner(p) ==
  /\ panic = NoPanic /\ mutref[p]
  /\ \/ LET r == count_borrow_mut(borrow_counts[ptrTarget[p]]) IN
          /\ borrow_counts' = [borrow_counts EXCEPT ![ptrTarget[p]] = r.bc]
          /\ panic' = r.msg
          /\ modify' = [modify EXCEPT ![ptrTarget[p]] = (r.msg = NoPanic)]
          /\ last' = Op("mutref_modify_inner", ptrTarget[p], p, 0,
                        IF r.msg = NoPanic THEN "ok" ELSE "panic")
     \/ /\ ~alive[ptrTarget[p]]
        /\ panic' = UseAfterFree
        /\ last' = Op("mutref_modify_inner", ptrTarget[p], p, 0, "panic")
        /\ UNCHANGED <<borrow_counts, modify>>
  /\ fired' = NoFired
  /\ UNCHANGED <<propVars, exprVars, treeVars, listVars, bindVars,
                 listenVars, boundVars, callVars, iterVars>>
  /\ UNCHANGED <<alive, handle, value, on_invalidated, hAlive, ptrTarget,
                 refs, mutref>>

\* -------------------------------------------------------------- Expression
\* The last operation, for the operations of Expression e: cell is the
\* Observable in its value field, ptr is e.
OpExpr(op, e, a, r, runs, views) ==
  [op |-> op, cell |-> ValueCell(e), ptr |-> e, arg |-> a, res |-> r,
   dead |-> 0, runs |-> runs, views |-> views, text |-> "", again |-> FALSE,
   list |-> <<>>]

\* The closure of expr::sum: fold(Default::default(), |sum, val| sum + val).
RECURSIVE fold_sum(_, _)
fold_sum(acc, vals) ==
  IF vals = <<>> THEN acc ELSE fold_sum(acc + Head(vals), Tail(vals))

sum(vals) == fold_sum(0, vals)

\* The closure of expr::and, over cells that hold 1 for true and 0 for false:
\* false on no views, otherwise fold(true, |result, val| result && val).
RECURSIVE fold_and(_, _)
fold_and(acc, vals) ==
  IF vals = <<>> THEN acc
  ELSE fold_and(IF acc = 1 /\ Head(vals) = 1 THEN 1 ELSE 0, Tail(vals))

and_AbsorbNothing(vals) == fold_and(1, vals)

expr_and(vals) == IF Len(vals) = 0 THEN 0 ELSE fold_and(1, vals)

\* (self.resolve)(&vec), for the closure f an Expression holds.
call_resolve(f, vals) == IF f = "and" THEN expr_and(vals) ELSE sum(vals)

\* ToObservablePtr for Expression: a pointer to its value field.
to_obsv_ptr(e) == ValueCell(e)

run_KeepVanished(ts, f) ==
  [msg |-> NoPanic, val |-> call_resolve(f, [i \in DOMAIN ts |-> value[ts[i]]]),
   runs |-> 1, views |-> Len(ts)]

\* Expression::run: try_deref on every pointer, the targets that are gone are
\* left out, resolve is called on the views collected. A target that is
\* exclusively borrowed makes try_deref panic.
run(ts, f) ==
  LET vec == SelectSeq(ts, LAMBDA c : handle[c] > 0)
      blocked == {i \in DOMAIN vec :
                    count_borrow(borrow_counts[vec[i]]).msg # NoPanic}
  IN IF blocked # {}
       THEN [msg |-> count_borrow(borrow_counts[vec[CHOOSE i \in blocked :
                       \A j \in blocked : i <= j]]).msg,
             val |-> 0, runs |-> 0, views |-> 0]
       ELSE [msg |-> NoPanic,
             val |-> call_resolve(f, [i \in DOMAIN vec |-> value[vec[i]]]),
             runs |-> 1, views |-> Len(vec)]

\* The targets a program gives to Expression::new: expression 1 is built over
\* the operand cells, a later one over the expression before it.
TargetLists(e) ==
  IF e = 1
    THEN {[i \in 1..NumOperands |-> NumCells + i]}
    ELSE IF built[e - 1] THEN {<<to_obsv_ptr(e - 1)>>} ELSE {}

Registered_FirstOnly(e, ts, c) ==
  IF ts # <<>> /\ c = ts[1] THEN <<ExprHandler(e)>> ELSE <<>>

Registered_Once(e, ts, c) ==
  IF Count(c, ts) > 0 THEN <<ExprHandler(e)>> ELSE <<>>

\* The entries Expression::new pushes on the list of cell c: one per
\* occurrence of c among the targets.
Registered(e, ts, c) ==
  [i \in 1..Count(c, ts) |-> ExprHandler(e)]

\* Expression::new. The targets are borrowed (&ToObservablePtr) for the call,
\* so they are alive and no ModifyInnerRef of them is outstanding; deref of a
\* target that is exclusively borrowed through a pointer panics.
Expression_new(e, ts, f) ==
  /\ panic = NoPanic /\ ~built[e]
  /\ \A i \in DOMAIN ts : CellFree(ts[i])
  /\ LET r == run(ts, f) IN
       IF r.msg # NoPanic
         THEN /\ panic' = r.msg
              /\ last' = OpExpr("expr_new", e, 0, "panic", 0, 0)
              /\ fired' = NoFired
              /\ UNCHANGED <<alive, handle, value, on_invalidated, hAlive,
                             built, targets, dirty, resolve>>
         ELSE /\ on_invalidated' =
                   [c \in AllCells |->
                      on_invalidated[c] \o Registered(e, ts, c)]
              /\ hAlive' = [hAlive EXCEPT ![ExprHandler(e)] = TRUE]
              /\ alive' = [alive EXCEPT ![ValueCell(e)] = TRUE]
              /\ handle' = [handle EXCEPT ![ValueCell(e)] = 1]
              /\ value' = [value EXCEPT ![ValueCell(e)] = r.val]
              /\ built' = [built EXCEPT ![e] = TRUE]
              /\ targets' = [targets EXCEPT ![e] = ts]
              /\ resolve' = [resolve EXCEPT ![e] = f]
              /\ dirty' = [dirty EXCEPT ![e] = FALSE]
              /\ fired' = NoFired
              /\ last' = OpExpr("expr_new", e, r.val, "ok", r.runs, r.views)
              /\ UNCHANGED panic
  /\ UNCHANGED <<borrow_counts, ptrTarget, refs, mutref, modify>>
  /\ UNCHANGED <<propVars, treeVars, listVars, bindVars, listenVars,
                 boundVars, callVars, iterVars>>

\* The borrow counts bc after ObservableRef::new on every cell of vec, and
\* after Drop for ObservableRef of every view of the Vec that run drops when
\* it returns.
RECURSIVE views_new(_, _)
views_new(bc, vec) ==
  IF vec = <<>> THEN bc
  ELSE views_new([bc EXCEPT ![Head(vec)] = count_borrow(@).bc], Tail(vec))

views_drop_Leak(bc, vec) == bc

RECURSIVE views_drop(_, _)
views_drop(bc, vec) ==
  IF vec = <<>> THEN bc
  ELSE views_drop([bc EXCEPT ![Head(vec)] = count_unborrow(@).bc], Tail(vec))

Recomputed_KeepDirty(e, f) == Invalidated(f)

\* The dirty flags a recompute leaves: the callbacks called by the store into
\* the value field have run, then self.dirty.set(false).
Recomputed(e, f) == [Invalidated(f) EXCEPT ![e] = FALSE]

\* Expression::get. When dirty: value_ptr.deref_mut() takes the exclusive
\* view of the value field, run recomputes, set stores (and notifies the
\* handlers of the value field on a change), the view is released, dirty is
\* cleared. The result is what the value field holds then. The views that
\* run collects are counted on the operands and released when run returns.
Expression_get(e) ==
  /\ panic = NoPanic /\ built[e]
  /\ LET vc == ValueCell(e)
         m == count_borrow_mut(borrow_counts[vc])
         r == run(targets[e], resolve[e])
         s == ObservableData_set(vc, r.val)
         vec == SelectSeq(targets[e], LAMBDA c : handle[c] > 0)
         held == views_new([borrow_counts EXCEPT ![vc] = m.bc], vec)
     IN IF ~dirty[e]
          THEN /\ last' = OpExpr("expr_get", e, value[vc], "ok", 0, 0)
               /\ fired' = NoFired
               /\ UNCHANGED <<value, on_invalidated, dirty, panic,
                              borrow_counts>>
          ELSE IF m.msg # NoPanic \/ r.msg # NoPanic
            THEN /\ panic' = IF m.msg # NoPanic THEN m.msg ELSE r.msg
                 /\ last' = OpExpr("expr_get", e, value[vc], "panic", 0, 0)
                 /\ fired' = NoFired
                 /\ UNCHANGED <<value, on_invalidated, dirty, borrow_counts>>
            ELSE /\ value' = [value EXCEPT ![vc] = s.value]
                 /\ borrow_counts' =
                      [views_drop(held, vec)
                         EXCEPT ![vc] = count_unborrow_mut(@).bc]
                 /\ on_invalidated' = [on_invalidated EXCEPT ![vc] = s.items]
                 /\ fired' = s.fired
                 /\ dirty' = Recomputed(e, s.fired)
                 /\ last' = OpExpr("expr_get", e, s.value, "ok",
                                   r.runs, r.views + 1)
                 /\ UNCHANGED panic
  /\ UNCHANGED <<alive, handle, hAlive, ptrTarget, refs, mutref, modify,
                 built, targets, resolve>>
  /\ UNCHANGED <<propVars, treeVars, listVars, bindVars, listenVars,
                 boundVars, callVars, iterVars>>

\* ------------------------------------------------ nodes of expr/mod.rs
\* The Expression of a plain cell: it holds a pointer to the cell.
Leaf(c) == [type |-> "leaf", cell |-> c]

\* expr::unary, expr::binary, logic::and, text::to_str
unary(src, f) == [type |-> "unary", src |-> src, f |-> f]
binary(lhs, rhs, f) == [type |-> "binary", lhs |-> lhs, rhs |-> rhs, f |-> f]
and(lhs, rhs) == [type |-> "and", lhs |-> lhs, rhs |-> rhs]
to_str(v) == [type |-> "to_str", value_expr |-> v]

\* math::neg, math::plus
neg(v) == unary(v, "neg")
plus(lhs, rhs) == binary(lhs, rhs, "plus")

\* The closures of neg and plus.
Apply1(f, v) == CASE f = "neg" -> 0 - v
Apply2(f, v1, v2) == CASE f = "plus" -> v1 + v2

\* format!("{0}", val) of an integer.
Digit(d) ==
  CASE d = 0 -> "0" [] d = 1 -> "1" [] d = 2 -> "2" [] d = 3 -> "3"
    [] d = 4 -> "4" [] d = 5 -> "5" [] d = 6 -> "6" [] d = 7 -> "7"
    [] d = 8 -> "8" [] d = 9 -> "9"

RECURSIVE format(_)
format(n) ==
  IF n < 0 THEN "-" \o format(0 - n)
  ELSE IF n < 10 THEN Digit(n)
  ELSE format(n \div 10) \o Digit(n % 10)

\* Option<T> with the number of calls of closures f made to compute it.
Some(v, t, n) == [some |-> TRUE, val |-> v, text |-> t, calls |-> n]
None(n) == [some |-> FALSE, val |-> 0, text |-> "", calls |-> n]

\* try_get of a leaf: the value of the cell, None once the cell is gone.
Leaf_try_get(c) == IF handle[c] > 0 THEN Some(value[c], "", 0) ELSE None(0)

\* add_invalidation_handler of a leaf, called n times with handler h: the
\* list of the cell c afterwards. A cell that is gone takes no handler.
Leaf_add_invalidation_handler(c, h, n) ==
  IF alive[c] THEN on_invalidated[c] \o [i \in 1..n |-> h]
  ELSE on_invalidated[c]

\* Expression::try_get of UnaryExpression, BinaryExpression, AndExpression
\* and ToStringExpression. A boolean is held as 0 or 1.
RECURSIVE try_get(_)
try_get(t) ==
  CASE t.type = "leaf" -> Leaf_try_get(t.cell)
    [] t.type = "unary" ->
         LET v == try_get(t.src)
         IN IF v.some THEN Some(Apply1(t.f, v.val), "", v.calls + 1) ELSE v
    [] t.type = "binary" ->
         LET l == try_get(t.lhs)
             r == try_get(t.rhs)
         IN IF ~l.some \/ ~r.some THEN None(l.calls + r.calls)
            ELSE Some(Apply2(t.f, l.val, r.val), "", l.calls + r.calls + 1)
    [] t.type = "and" ->
         LET l == try_get(t.lhs)
             r == try_get(t.rhs)
         IN IF ~l.some \/ ~r.some THEN None(l.calls + r.calls)
            ELSE Some(IF l.val # 0 /\ r.val # 0 THEN 1 ELSE 0, "",
                      l.calls + r.calls)
    [] t.type = "to_str" ->
         LET v == try_get(t.value_expr)
         IN IF v.some THEN Some(0, format(v.val), v.calls) ELSE v

RECURSIVE Leaves_LhsOnly(_)
Leaves_LhsOnly(t) ==
  CASE t.type = "leaf" -> <<t.cell>>
    [] t.type = "unary" -> Leaves_LhsOnly(t.src)
    [] t.type \in {"binary", "and"} -> Leaves_LhsOnly(t.lhs)
    [] t.type = "to_str" -> Leaves_LhsOnly(t.value_expr)

\* add_invalidation_handler of a node: the cells the handler is passed on to,
\* one entry per leaf, in the order of the calls.
RECURSIVE Leaves(_)
Leaves(t) ==
  CASE t.type = "leaf" -> <<t.cell>>
    [] t.type = "unary" -> Leaves(t.src)
    [] t.type \in {"binary", "and"} -> Leaves(t.lhs) \o Leaves(t.rhs)
    [] t.type = "to_str" -> Leaves(t.value_expr)

\* The nodes a program builds over the operand cells.
Trees ==
  LET L == {Leaf(c) : c \in Operands}
      P == {<<Leaf(c), Leaf(d)>> : c \in Operands, d \in Operands}
  IN {neg(x) : x \in L} \cup {to_str(x) : x \in L}
     \cup {plus(p[1], p[2]) : p \in {q \in P : q[1].cell <= q[2].cell}}
     \cup {and(p[1], p[2]) : p \in {q \in P : q[1].cell < q[2].cell}}
     \cup {neg(plus(p[1], p[2])) : p \in {q \in P : q[1].cell < q[2].cell}}
     \cup {to_str(neg(plus(p[1], p[2]))) :
              p \in {q \in P : q[1].cell < q[2].cell}}

\* The unchanged part of the operations on nodes.
TreeFrame ==
  /\ UNCHANGED <<alive, handle, value, borrow_counts, hAlive, ptrTarget,
                 refs, mutref, modify>>
  /\ UNCHANGED <<propVars, exprVars, listVars, bindVars, listenVars,
                 boundVars, callVars, iterVars>>

\* A program builds the node t: the cells of its leaves are borrowed for the
\* call.
Tree_new(t) ==
  /\ panic = NoPanic /\ tree = NoTree
  /\ \A i \in DOMAIN Leaves(t) : CellFree(Leaves(t)[i])
  /\ tree' = t
  /\ fired' = NoFired
  /\ last' = Op("tree_new", NoCell, 0, 0, "ok")
  /\ UNCHANGED <<on_invalidated, panic>>
  /\ TreeFrame

\* Expression::get on the node: self.try_get().unwrap()
Tree_get ==
  /\ panic = NoPanic /\ tree # NoTree
  /\ LET r == try_get(tree) IN
       /\ panic' = IF r.some THEN NoPanic ELSE UnwrapNone
       /\ last' = [Op("tree_get", NoCell, 0, r.val,
                      IF r.some THEN "ok" ELSE "panic")
                     EXCEPT !.runs = r.calls, !.text = r.text,
                            !.again = (last.op = "tree_get")]
  /\ fired' = NoFired
  /\ UNCHANGED <<on_invalidated, tree>>
  /\ TreeFrame

\* Expression::add_invalidation_handler on the node, with a handler that is
\* on no list yet. A leaf passes the handler to its cell (when it is alive).
Tree_add_invalidation_handler(h) ==
  /\ panic = NoPanic /\ tree # NoTree /\ hAlive[h]
  /\ \A c \in AllCells : Count(h, on_invalidated[c]) = 0
  /\ SumEntries(NumCells + NumOperands) + Len(Leaves(tree)) <= MaxEntries
  /\ on_invalidated' =
       [c \in AllCells |->
          Leaf_add_invalidation_handler(c, h, Count(c, Leaves(tree)))]
  /\ fired' = NoFired
  /\ last' = Op("tree_listen", NoCell, 0, h, "ok")
  /\ UNCHANGED <<panic, tree>>
  /\ TreeFrame

\* --------------------------------------------- a WeakList used directly
\* The referents of the list are the Rc's of the handlers: hAlive[h] says
\* that the Rc h still has its strong owner.
ListFrame ==
  /\ UNCHANGED <<alive, handle, value, borrow_counts, on_invalidated,
                 ptrTarget, refs, mutref, modify, panic>>
  /\ UNCHANGED <<propVars, exprVars, treeVars, bindVars, listenVars,
                 boundVars, callVars, iterVars>>

\* list.push(&h). With temp the Rc is a temporary of the statement, as in
\* list.push(&Rc::new(1)): it is dropped when the statement ends.
WeakList_push(h, temp) ==
  /\ panic = NoPanic /\ hAlive[h] /\ Len(pushed) < MaxPushes
  /\ weak_items' = Append(weak_items, h)
  /\ pushed' = Append(pushed, h)
  /\ hAlive' = [hAlive EXCEPT ![h] = ~temp]
  /\ UNCHANGED plist
  /\ fired' = NoFired
  /\ last' = Op("list_push", NoCell, 0, h, "ok")
  /\ ListFrame

WeakList_len_NoClean ==
  /\ panic = NoPanic
  /\ last' = Op("list_len", NoCell, 0, len_no_clean(weak_items), "ok")
  /\ fired' = NoFired
  /\ UNCHANGED <<weak_items, pushed, plist, hAlive>>
  /\ ListFrame

\* WeakList::len: clean, then len_no_clean
WeakList_len ==
  /\ panic = NoPanic
  /\ weak_items' = clean(weak_items)
  /\ last' = Op("list_len", NoCell, 0, len_no_clean(clean(weak_items)), "ok")
  /\ fired' = NoFired
  /\ UNCHANGED <<pushed, plist, hAlive>>
  /\ ListFrame

\* WeakList::len_no_clean, as the tests of weak.rs call it
WeakList_len_no_clean ==
  /\ panic = NoPanic
  /\ last' = Op("list_len_no_clean", NoCell, 0, len_no_clean(weak_items), "ok")
  /\ fired' = NoFired
  /\ UNCHANGED <<weak_items, pushed, plist, hAlive>>
  /\ ListFrame

\* WeakList::upgrade: the result holds the living referents, the list is
\* cleaned.
WeakList_upgrade ==
  /\ panic = NoPanic
  /\ weak_items' = clean(weak_items)
  /\ last' = [Op("list_upgrade", NoCell, 0, Len(upgrade(weak_items)), "ok")
                 EXCEPT !.list = upgrade(weak_items)]
  /\ fired' = NoFired
  /\ UNCHANGED <<pushed, plist, hAlive>>
  /\ ListFrame

\* --------------------------------------------------------------- Listeners
\* The targets of a ListenChain: listen_to(t1), or listen_to(t1).and(t2).
Chains ==
  {<<Leaf(c)>> : c \in Operands}
    \cup {<<Leaf(p[1]), Leaf(p[2])>> :
            p \in {q \in Operands \X Operands : q[1] <= q[2]}}

ChainLeaves_FirstOnly(ts) == Leaves(Head(ts))

\* The cells a handler is passed on to by the closures of register_callbacks,
\* one entry per leaf of every target, in the order of the calls.
RECURSIVE ChainLeaves(_)
ChainLeaves(ts) ==
  IF ts = <<>> THEN <<>> ELSE Leaves(Head(ts)) \o ChainLeaves(Tail(ts))

ListenFrame ==
  /\ UNCHANGED <<alive, handle, value, borrow_counts, ptrTarget, refs,
                 mutref, modify, panic>>
  /\ UNCHANGED <<propVars, exprVars, treeVars, listVars, bindVars, boundVars,
                 callVars, iterVars>>

\* listen_to(..).and(..).with(f), where h is the InvalidationHandler made of
\* f: every closure of register_callbacks passes h to its target, then the
\* Listeners own h.
ListenChain_with(h, ts) ==
  /\ panic = NoPanic /\ hAlive[h] /\ chain[h] = <<>>
  /\ \A c \in AllCells : Count(h, on_invalidated[c]) = 0
  /\ \A i \in DOMAIN ChainLeaves(ts) : CellFree(ChainLeaves(ts)[i])
  /\ SumEntries(NumCells + NumOperands) + Len(ChainLeaves(ts)) <= MaxEntries
  /\ on_invalidated' =
       [c \in AllCells |->
          Leaf_add_invalidation_handler(c, h, Count(c, ChainLeaves(ts)))]
  /\ handlers' = Append(handlers, h)
  /\ chain' = [chain EXCEPT ![h] = ts]
  /\ fired' = NoFired
  /\ last' = Op("listen", NoCell, 0, h, "ok")
  /\ UNCHANGED hAlive
  /\ ListenFrame

\* Listeners::release_all: the Vec is cleared, which drops its handlers.
Listeners_release_all ==
  /\ panic = NoPanic
  /\ handlers' = <<>>
  /\ hAlive' = [h \in AllHandlers |->
                  hAlive[h] /\ Count(h, handlers) = 0]
  /\ fired' = NoFired
  /\ chain' = [h \in AllHandlers |-> <<>>]
  /\ last' = Op("release_all", NoCell, 0, 0, "ok")
  /\ UNCHANGED on_invalidated
  /\ ListenFrame

\* ------------------------------------ handlers that call into the library
\* The closures a program wraps in an InvalidationHandler: a counter; a probe,
\* which tries to dereference a pointer to the first operand and then calls
\* get of Expression 1; a poke, which stores val into the first operand
\* through a pointer to it.
Probed == NumCells + 1
Closures ==
  {[kind |-> "probe", cell |-> Probed, val |-> 0]} \cup
  {[kind |-> "poke", cell |-> Probed, val |-> v] : v \in Values}

\* Closures that access the cell they watch through a pointer to it:
\* ptr.try_deref() and ptr.try_deref_mut(), the view dropped at once.
GuardClosures ==
  {[kind |-> k, cell |-> c, val |-> 0] :
     k \in {"try_deref", "try_deref_mut"}, c \in Cells}

\* Closures that change who listens: one drops the InvalidationHandler val
\* it owns, one registers the handler val on the cell, once.
WaveClosures ==
  {[kind |-> k, cell |-> c, val |-> g] :
     k \in {"drop", "add"}, c \in Cells, g \in Handlers}

\* The state a notification works on while the callbacks run.
CallState ==
  [value |-> value, dirty |-> dirty, on |-> on_invalidated,
   bc |-> borrow_counts, fired |-> NoFired, seen |-> <<>>, runs |-> 0,
   hAlive |-> hAlive, held |-> {}, msg |-> NoPanic]

\* Weak::upgrade of an entry for h succeeds: its InvalidationHandler still
\* exists, or a notification in progress holds the Rc it collected.
Upgrades(st, h) == st.hAlive[h] \/ h \in st.held

\* Expression::run in the middle of an operation.
run_in(ts, f, st) ==
  LET vec == SelectSeq(ts, LAMBDA c : handle[c] > 0)
      blocked == {i \in DOMAIN vec : count_borrow(st.bc[vec[i]]).msg # NoPanic}
  IN IF blocked # {}
       THEN [msg |-> count_borrow(st.bc[vec[CHOOSE i \in blocked :
                       \A j \in blocked : i <= j]]).msg, val |-> 0]
       ELSE [msg |-> NoPanic,
             val |-> call_resolve(f, [i \in DOMAIN vec |->
                                         st.value[vec[i]]])]

RECURSIVE ObservableData_set_in(_, _, _)
RECURSIVE fire_invalidated_in(_, _)
RECURSIVE call_each(_, _, _)
RECURSIVE call(_, _)
RECURSIVE Expression_get_in(_, _)

\* ObservableData::set
ObservableData_set_in(c, v, st) ==
  IF st.value[c] # v
    THEN fire_invalidated_in(c, [st EXCEPT !.value[c] = v])
    ELSE st

\* ObservableData::fire_invalidated: the list is upgraded (and so compacted),
\* then each callback collected is called in turn.
fire_invalidated_in(c, st) ==
  LET items == SelectSeq(st.on[c], LAMBDA h : Upgrades(st, h)) IN
    call_each(items, st.held, [st EXCEPT !.on[c] = items])

call_each_SkipDropped(items, base, st) ==
  IF items = <<>> \/ st.msg # NoPanic
    THEN [st EXCEPT !.held = base]
    ELSE IF ~st.hAlive[Head(items)]
      THEN call_each(Tail(items), base, st)
      ELSE call_each(Tail(items), base, call(Head(items), st))

\* The for loop over the Vec<Rc<Fn()>> upgrade returned: the Rcs not yet
\* consumed keep their callbacks alive, whatever the callbacks drop.
call_each(items, base, st) ==
  IF items = <<>> \/ st.msg # NoPanic
    THEN [st EXCEPT !.held = base]
    ELSE call_each(Tail(items), base,
                   call(Head(items),
                        [st EXCEPT !.held = base \cup
                                     {items[i] : i \in DOMAIN items}]))

\* One call of the callback of handler h.
call(h, st) ==
  LET s0 == [st EXCEPT !.fired[h] = @ + 1] IN
    IF h \notin Handlers
      THEN [s0 EXCEPT !.dirty[h - NumHandlers] = TRUE]
    ELSE IF callback[h].kind = "probe"
      THEN LET b == count_borrow(s0.bc[Probed])
               res == IF handle[Probed] = 0 THEN "None"
                      ELSE IF b.msg = NoPanic THEN "Some" ELSE "panic"
               s1 == [s0 EXCEPT !.seen = Append(@, res)]
           IN IF res = "panic" THEN [s1 EXCEPT !.msg = b.msg]
              ELSE Expression_get_in(1, s1)
    ELSE IF callback[h].kind = "poke"
      THEN LET m == count_borrow_mut(s0.bc[Probed])
               s2 == ObservableData_set_in(Probed, callback[h].val,
                                           [s0 EXCEPT !.bc[Probed] = m.bc])
           IN IF handle[Probed] = 0 THEN s0
              ELSE IF m.msg # NoPanic THEN [s0 EXCEPT !.msg = m.msg]
              ELSE IF s2.msg # NoPanic THEN s2
              ELSE [s2 EXCEPT !.bc[Probed] = count_unborrow_mut(@).bc]
    ELSE IF callback[h].kind = "try_deref"
      THEN LET c == callback[h].cell
               b == count_borrow(s0.bc[c])
               res == IF handle[c] = 0 THEN "None"
                      ELSE IF b.msg = NoPanic THEN "Some" ELSE "panic"
           IN [s0 EXCEPT !.seen = Append(@, res),
                         !.msg = IF res = "panic" THEN b.msg ELSE @]
    ELSE IF callback[h].kind = "try_deref_mut"
      THEN LET c == callback[h].cell
               b == count_borrow_mut(s0.bc[c])
               res == IF handle[c] = 0 THEN "None"
                      ELSE IF b.msg = NoPanic THEN "Some" ELSE "panic"
           IN [s0 EXCEPT !.seen = Append(@, res),
                         !.msg = IF res = "panic" THEN b.msg ELSE @]
    ELSE IF callback[h].kind = "drop"
      THEN [s0 EXCEPT !.hAlive[callback[h].val] = FALSE]
    ELSE IF callback[h].kind = "add"
      THEN LET c == callback[h].cell
               g == callback[h].val
               b == count_borrow(s0.bc[c])
           IN IF handle[c] = 0 \/ ~s0.hAlive[g] \/ Count(g, s0.on[c]) > 0
                THEN s0
              ELSE IF b.msg # NoPanic THEN [s0 EXCEPT !.msg = b.msg]
              ELSE [s0 EXCEPT !.on[c] = Append(@, g)]
    ELSE s0

\* Expression::get: when dirty, take the exclusive view of the value field,
\* run, store (which notifies), release the view, then dirty.set(false).
Expression_get_in(e, st) ==
  IF ~st.dirty[e] THEN st
  ELSE LET vc == ValueCell(e)
           m == count_borrow_mut(st.bc[vc])
           s1 == [st EXCEPT !.bc[vc] = m.bc]
           r == run_in(targets[e], resolve[e], s1)
       IN IF m.msg # NoPanic THEN [st EXCEPT !.msg = m.msg]
          ELSE IF r.msg # NoPanic THEN [s1 EXCEPT !.msg = r.msg]
          ELSE LET s2 == ObservableData_set_in(vc, r.val,
                           [s1 EXCEPT !.runs = @ + 1])
               IN IF s2.msg # NoPanic THEN s2
                  ELSE [s2 EXCEPT !.bc[vc] = count_unborrow_mut(@).bc,
                                  !.dirty[e] = FALSE]

\* What an operation that notified leaves behind.
Called(st) ==
  /\ value' = st.value
  /\ dirty' = st.dirty
  /\ borrow_counts' = st.bc
  /\ fired' = st.fired
  /\ hAlive' = st.hAlive
  /\ panic' = st.msg

CallFrame ==
  /\ UNCHANGED <<propVars, built, targets, resolve, treeVars, listVars,
                 bindVars, listenVars, boundVars, iterVars>>
  /\ UNCHANGED <<ptrTarget, refs, mutref, modify>>

Registrations(h) ==
  Cardinality({p \in AllCells \X (1..MaxEntries) :
                 p[2] \in DOMAIN on_invalidated[p[1]]
                 /\ on_invalidated[p[1]][p[2]] = h})

\* InvalidationHandler::new(closure), for a handler not yet registered. The
\* probe captures Expression 1, which therefore exists.
InvalidationHandler_new(h, cb) ==
  /\ panic = NoPanic /\ hAlive[h] /\ callback[h] = Counter
  /\ Registrations(h) = 0
  /\ cb.kind = "probe" => built[1]
  /\ cb.kind = "poke" => \A g \in Handlers : callback[g].kind # "poke"
  /\ callback' = [callback EXCEPT ![h] = cb]
  /\ fired' = NoFired
  /\ last' = Op("handler_new", NoCell, 0, h, "ok")
  /\ UNCHANGED <<alive, handle, value, borrow_counts, on_invalidated,
                 hAlive, dirty, panic>>
  /\ CallFrame

\* ObservableRef::add_invalidation_handler, on the view ptr.deref() gives.
ObservableRef_add_invalidation_handler(c, h) ==
  /\ panic = NoPanic /\ handle[c] > 0 /\ hAlive[h]
  /\ Registrations(h) = 0
  /\ Len(on_invalidated[c]) < MaxEntries
  /\ on_invalidated' = [on_invalidated EXCEPT ![c] = Append(@, h)]
  /\ fired' = NoFired
  /\ last' = Op("add_handler", c, 0, h, "ok")
  /\ UNCHANGED <<alive, handle, value, borrow_counts, hAlive, dirty,
                 callback, panic>>
  /\ CallFrame

\* Observable::set, the callbacks run in place.
Observable_set_calling(c, v) ==
  /\ panic = NoPanic /\ CellFree(c)
  /\ LET st == ObservableData_set_in(c, v, CallState) IN
       /\ Called(st)
       /\ on_invalidated' = st.on
       /\ last' = [Op("set", c, 0, v,
                      IF st.msg = NoPanic THEN "ok" ELSE "panic")
                     EXCEPT !.runs = st.runs, !.list = st.seen]
  /\ UNCHANGED <<alive, handle, callback>>
  /\ CallFrame

\* Drop for ObservableData, the callbacks run in place, then the drop of its
\* fields: the handle, and the list with its entries.
Observable_drop_calling(c) ==
  /\ panic = NoPanic /\ CellFree(c)
  /\ LET st == fire_invalidated_in(c, CallState) IN
       /\ Called(st)
       /\ on_invalidated' = [st.on EXCEPT ![c] = <<>>]
       /\ last' = [Op("drop", c, 0, 0,
                      IF st.msg = NoPanic THEN "ok" ELSE "panic")
                     EXCEPT !.runs = st.runs, !.list = st.seen]
  /\ alive' = [alive EXCEPT ![c] = FALSE]
  /\ handle' = [handle EXCEPT ![c] = 0]
  /\ UNCHANGED callback
  /\ CallFrame

\* Expression::get, the callbacks run in place.
Expression_get_calling(e) ==
  /\ panic = NoPanic /\ built[e]
  /\ LET st == Expression_get_in(e, CallState) IN
       /\ Called(st)
       /\ on_invalidated' = st.on
       /\ last' = OpExpr("expr_get", e, st.value[ValueCell(e)],
                         IF st.msg = NoPanic THEN "ok" ELSE "panic",
                         st.runs, 0)
  /\ UNCHANGED <<alive, handle, callback>>
  /\ CallFrame

\* ObservableMutRef::set -> ObservablePtr::set -> ObservableData::set, the
\* callbacks run in place while the view keeps the cell exclusively borrowed.
ObservableMutRef_set_calling(p, v) ==
  /\ panic = NoPanic /\ mutref[p]
  /\ \/ LET st == ObservableData_set_in(ptrTarget[p], v, CallState) IN
          /\ Called(st)
          /\ on_invalidated' = st.on
          /\ last' = [Op("mutref_set", ptrTarget[p], p, v,
                         IF st.msg = NoPanic THEN "ok" ELSE "panic")
                        EXCEPT !.runs = st.runs, !.list = st.seen]
     \/ /\ ~alive[ptrTarget[p]]
        /\ panic' = UseAfterFree
        /\ fired' = NoFired
        /\ last' = Op("mutref_set", ptrTarget[p], p, v, "panic")
        /\ UNCHANGED <<value, dirty, borrow_counts, hAlive, on_invalidated>>
  /\ UNCHANGED <<alive, handle, callback>>
  /\ CallFrame

\* ------------------------------------------- a Property bound to a node
BoundFrame ==
  /\ UNCHANGED <<obsvVars, propVars, exprVars, treeVars, listVars, bindVars,
                 listenVars, callVars, iterVars>>

\* Property::bind(expression): the Property takes the node in hand.
BoundField_bind ==
  /\ panic = NoPanic /\ tree # NoTree /\ tree.type # "to_str" /\ ~binding
  /\ binding' = TRUE
  /\ last' = Op("field_bind", NoCell, 0, 0, "ok")
  /\ UNCHANGED <<field, panic>>
  /\ BoundFrame

\* Property::unbind
BoundField_unbind ==
  /\ panic = NoPanic /\ binding
  /\ binding' = FALSE
  /\ last' = Op("field_unbind", NoCell, 0, 0, "ok")
  /\ UNCHANGED <<field, panic>>
  /\ BoundFrame

\* Property::get: a bound Property first pulls the value of its expression
\* (Expression::get of the node) into its local value, then returns that.
BoundField_get ==
  /\ panic = NoPanic
  /\ IF binding
       THEN LET r == try_get(tree) IN
              /\ panic' = IF r.some THEN NoPanic ELSE UnwrapNone
              /\ field' = IF r.some THEN r.val ELSE field
              /\ last' = Op("field_get", NoCell, 0,
                            IF r.some THEN r.val ELSE 0,
                            IF r.some THEN "ok" ELSE "panic")
       ELSE /\ last' = Op("field_get", NoCell, 0, field, "ok")
            /\ UNCHANGED <<field, panic>>
  /\ UNCHANGED binding
  /\ BoundFrame

\* ------------------------------------------------- Property / PropertyPtr
\* BorrowCounts of src/src/property.rs (a copy with its own messages).
Property_count_borrow(bc) ==
  IF bc.mutable
    THEN [msg |-> PropMutablyBorrowed, bc |-> bc]
    ELSE [msg |-> NoPanic, bc |-> [bc EXCEPT !.immutable = @ + 1]]

Property_count_borrow_mut(bc) ==
  IF bc.mutable
    THEN [msg |-> PropMutablyBorrowed, bc |-> bc]
    ELSE IF bc.immutable > 0
      THEN [msg |-> PropImmutablyBorrowed, bc |-> bc]
      ELSE [msg |-> NoPanic, bc |-> [bc EXCEPT !.mutable = TRUE]]

Property_count_unborrow(bc) ==
  IF bc.immutable = 0
    THEN [msg |-> InvalidRelease, bc |-> bc]
    ELSE [msg |-> NoPanic, bc |-> [bc EXCEPT !.immutable = @ - 1]]

Property_count_unborrow_mut(bc) ==
  IF ~bc.mutable
    THEN [msg |-> InvalidReleaseMut, bc |-> bc]
    ELSE [msg |-> NoPanic, bc |-> [bc EXCEPT !.mutable = FALSE]]

\* Weak::upgrade of PropertyPtr.weak_borrow_counts
weak_borrow_counts_upgrade(pp) == pRc[pptrTarget[pp]] > 0

\* PropertyPtr::try_deref with PropertyRef::new. rc is the strong count the
\* call leaves behind: the view keeps the upgraded Rc.
Property_try_deref(pp) ==
  IF weak_borrow_counts_upgrade(pp)
    THEN LET r == Property_count_borrow(pCounts[pptrTarget[pp]]) IN
           [res |-> IF r.msg = NoPanic THEN "Some" ELSE "panic",
            msg |-> r.msg, bc |-> r.bc,
            rc |-> pRc[pptrTarget[pp]] + (IF r.msg = NoPanic THEN 1 ELSE 0)]
    ELSE [res |-> "None", msg |-> NoPanic, bc |-> pCounts[pptrTarget[pp]],
          rc |-> pRc[pptrTarget[pp]]]

\* PropertyPtr::try_deref_mut with PropertyMutRef::new
Property_try_deref_mut(pp) ==
  IF weak_borrow_counts_upgrade(pp)
    THEN LET r == Property_count_borrow_mut(pCounts[pptrTarget[pp]]) IN
           [res |-> IF r.msg = NoPanic THEN "Some" ELSE "panic",
            msg |-> r.msg, bc |-> r.bc,
            rc |-> pRc[pptrTarget[pp]] + (IF r.msg = NoPanic THEN 1 ELSE 0)]
    ELSE [res |-> "None", msg |-> NoPanic, bc |-> pCounts[pptrTarget[pp]],
          rc |-> pRc[pptrTarget[pp]]]

\* PropertyPtr::deref
Property_deref(pp) == unwrap(Property_try_deref(pp))

\* PropertyPtr::deref_mut
Property_deref_mut(pp) == unwrap(Property_try_deref_mut(pp))

RECURSIVE SumPRefs(_, _)
SumPRefs(q, n) ==
  IF n = 0 THEN 0
  ELSE SumPRefs(q, n - 1) + (IF pptrTarget[n] = q THEN pRefs[n] ELSE 0)

\* PropertyPtr::new(&target)
PropertyPtr_new(pp, q) ==
  /\ panic = NoPanic /\ pptrTarget[pp] = NoProp /\ pAlive[q]
  /\ pptrTarget' = [pptrTarget EXCEPT ![pp] = q]
  /\ last' = Op("p_ptr_new", q, pp, 0, "ok")
  /\ UNCHANGED <<pAlive, pValue, pCounts, pRc, pRefs, pMut, panic>>
  /\ UNCHANGED <<obsvVars, exprVars, treeVars, listVars, bindVars,
                 listenVars, boundVars, callVars, iterVars>>

\* Clone for PropertyPtr
PropertyPtr_clone(pp, qq) ==
  /\ panic = NoPanic /\ pptrTarget[pp] # NoProp /\ ~pMut[pp]
  /\ pptrTarget[qq] = NoProp
  /\ pptrTarget' = [pptrTarget EXCEPT ![qq] = pptrTarget[pp]]
  /\ last' = Op("p_ptr_clone", pptrTarget[pp], qq, 0, "ok")
  /\ UNCHANGED <<pAlive, pValue, pCounts, pRc, pRefs, pMut, panic>>
  /\ UNCHANGED <<obsvVars, exprVars, treeVars, listVars, bindVars,
                 listenVars, boundVars, callVars, iterVars>>

\* Property::set: a plain store, without comparison or accounting.
Property_set(q, v) ==
  /\ panic = NoPanic /\ pAlive[q]
  /\ pValue' = [pValue EXCEPT ![q] = v]
  /\ last' = Op("p_set", q, 0, v, "ok")
  /\ UNCHANGED <<pAlive, pCounts, pRc, pptrTarget, pRefs, pMut, panic>>
  /\ UNCHANGED <<obsvVars, exprVars, treeVars, listVars, bindVars,
                 listenVars, boundVars, callVars, iterVars>>

\* drop(Property): value_cell is freed, one strong count of borrow_counts goes.
Property_drop(q) ==
  /\ panic = NoPanic /\ pAlive[q]
  /\ pAlive' = [pAlive EXCEPT ![q] = FALSE]
  /\ pRc' = [pRc EXCEPT ![q] = @ - 1]
  /\ last' = Op("p_drop", q, 0, 0, "ok")
  /\ UNCHANGED <<pValue, pCounts, pptrTarget, pRefs, pMut, panic>>
  /\ UNCHANGED <<obsvVars, exprVars, treeVars, listVars, bindVars,
                 listenVars, boundVars, callVars, iterVars>>

PropAcquireShared(pp, op, r) ==
  /\ panic = NoPanic /\ pptrTarget[pp] # NoProp /\ ~pMut[pp]
  /\ SumPRefs(pptrTarget[pp], NumPPtrs) < MaxBorrow
  /\ pCounts' = [pCounts EXCEPT ![pptrTarget[pp]] = r.bc]
  /\ pRc' = [pRc EXCEPT ![pptrTarget[pp]] = r.rc]
  /\ panic' = r.msg
  /\ pRefs' = [pRefs EXCEPT ![pp] = IF r.res = "Some" THEN @ + 1 ELSE @]
  /\ last' = Op(op, pptrTarget[pp], pp, 0, r.res)
  /\ UNCHANGED <<pAlive, pValue, pptrTarget, pMut>>
  /\ UNCHANGED <<obsvVars, exprVars, treeVars, listVars, bindVars,
                 listenVars, boundVars, callVars, iterVars>>

PropAcquireExclusive(pp, op, r) ==
  /\ panic = NoPanic /\ pptrTarget[pp] # NoProp
  /\ ~pMut[pp] /\ pRefs[pp] = 0
  /\ pCounts' = [pCounts EXCEPT ![pptrTarget[pp]] = r.bc]
  /\ pRc' = [pRc EXCEPT ![pptrTarget[pp]] = r.rc]
  /\ panic' = r.msg
  /\ pMut' = [pMut EXCEPT ![pp] = (r.res = "Some")]
  /\ last' = Op(op, pptrTarget[pp], pp, 0, r.res)
  /\ UNCHANGED <<pAlive, pValue, pptrTarget, pRefs>>
  /\ UNCHANGED <<obsvVars, exprVars, treeVars, listVars, bindVars,
                 listenVars, boundVars, callVars, iterVars>>

PropertyPtr_try_deref(pp) ==
  PropAcquireShared(pp, "p_try_deref", Property_try_deref(pp))
PropertyPtr_try_deref_mut(pp) ==
  PropAcquireExclusive(pp, "p_try_deref_mut", Property_try_deref_mut(pp))
PropertyPtr_deref(pp) == PropAcquireShared(pp, "p_deref", Property_deref(pp))
PropertyPtr_deref_mut(pp) ==
  PropAcquireExclusive(pp, "p_deref_mut", Property_deref_mut(pp))

\* Drop for PropertyRef: count_unborrow, then the view's Rc is dropped.
PropertyRef_drop(pp) ==
  /\ panic = NoPanic /\ pRefs[pp] > 0
  /\ pRefs' = [pRefs EXCEPT ![pp] = @ - 1]
  /\ LET r == Property_count_unborrow(pCounts[pptrTarget[pp]]) IN
       /\ pCounts' = [pCounts EXCEPT ![pptrTarget[pp]] = r.bc]
       /\ panic' = r.msg
  /\ pRc' = [pRc EXCEPT ![pptrTarget[pp]] = @ - 1]
  /\ last' = Op("p_ref_release", pptrTarget[pp], pp, 0, "ok")
  /\ UNCHANGED <<pAlive, pValue, pptrTarget, pMut>>
  /\ UNCHANGED <<obsvVars, exprVars, treeVars, listVars, bindVars,
                 listenVars, boundVars, callVars, iterVars>>

\* Drop for PropertyMutRef
PropertyMutRef_drop(pp) ==
  /\ panic = NoPanic /\ pMut[pp]
  /\ pMut' = [pMut EXCEPT ![pp] = FALSE]
  /\ LET r == Property_count_unborrow_mut(pCounts[pptrTarget[pp]]) IN
       /\ pCounts' = [pCounts EXCEPT ![pptrTarget[pp]] = r.bc]
       /\ panic' = r.msg
  /\ pRc' = [pRc EXCEPT ![pptrTarget[pp]] = @ - 1]
  /\ last' = Op("p_mut_release", pptrTarget[pp], pp, 0, "ok")
  /\ UNCHANGED <<pAlive, pValue, pptrTarget, pRefs>>
  /\ UNCHANGED <<obsvVars, exprVars, treeVars, listVars, bindVars,
                 listenVars, boundVars, callVars, iterVars>>

\* PropertyMutRef::set: a store through value_cell. On a dropped Property the
\* store goes to freed memory: the run faults or the store lands there.
PropertyMutRef_set(pp, v) ==
  /\ panic = NoPanic /\ pMut[pp]
  /\ \/ /\ pValue' = [pValue EXCEPT ![pptrTarget[pp]] = v]
        /\ last' = Op("p_mutref_set", pptrTarget[pp], pp, v, "ok")
        /\ UNCHANGED panic
     \/ /\ ~pAlive[pptrTarget[pp]]
        /\ panic' = UseAfterFree
        /\ last' = Op("p_mutref_set", pptrTarget[pp], pp, v, "panic")
        /\ UNCHANGED pValue
  /\ UNCHANGED <<pAlive, pCounts, pRc, pptrTarget, pRefs, pMut>>
  /\ UNCHANGED <<obsvVars, exprVars, treeVars, listVars, bindVars,
                 listenVars, boundVars, callVars, iterVars>>

\* ------------------------------------------------------------ PropertyList
\* try_deref(..).is_some() on the entry of Property q: the PropertyRef is a
\* temporary, so the counts are as before when the call returns.
Entry_is_some(q) ==
  IF pRc[q] > 0
    THEN [msg |-> Property_count_borrow(pCounts[q]).msg,
          some |-> Property_count_borrow(pCounts[q]).msg = NoPanic]
    ELSE [msg |-> NoPanic, some |-> FALSE]

\* PropertyList::clean: retain(|p_ptr| p_ptr.try_deref().is_some())
PropertyList_clean(items) ==
  SelectSeq(items, LAMBDA q : Entry_is_some(q).some)

\* PropertyList::push
PropertyList_push(q) ==
  /\ panic = NoPanic /\ pAlive[q] /\ Len(plist) < MaxPushes
  /\ plist' = Append(plist, q)
  /\ last' = Op("plist_push", q, 0, 0, "ok")
  /\ UNCHANGED <<weak_items, pushed, panic>>
  /\ UNCHANGED <<obsvVars, propVars, exprVars, treeVars, bindVars,
                 listenVars, boundVars, callVars, iterVars>>

\* for p in list.iter() { } : PropertyListIterator::next until it returns
\* None. Each call skips the entries whose try_deref is None and yields a
\* clone of the next one; the call that finds no further entry cleans the
\* list. A try_deref of an entry whose target is exclusively borrowed panics.
PropertyList_iterate ==
  /\ panic = NoPanic
  /\ IF \E i \in DOMAIN plist : Entry_is_some(plist[i]).msg # NoPanic
       THEN /\ panic' = PropMutablyBorrowed
            /\ last' = Op("plist_iter", NoCell, 0, 0, "panic")
            /\ UNCHANGED plist
       ELSE /\ plist' = PropertyList_clean(plist)
            /\ last' = [Op("plist_iter", NoCell, 0, 0, "ok")
                          EXCEPT !.list =
                            SelectSeq(plist, LAMBDA q : Entry_is_some(q).some)]
            /\ UNCHANGED panic
  /\ UNCHANGED <<weak_items, pushed>>
  /\ UNCHANGED <<obsvVars, propVars, exprVars, treeVars, bindVars,
                 listenVars, boundVars, callVars, iterVars>>

\* PropertyList::iter
PropertyList_iter(i) ==
  /\ panic = NoPanic /\ index[i] = NoIter
  /\ index' = [index EXCEPT ![i] = 0]
  /\ started' = [started EXCEPT ![i] = plist]
  /\ yielded' = [yielded EXCEPT ![i] = <<>>]
  /\ last' = Op("plist_iter_new", NoCell, i, 0, "ok")
  /\ UNCHANGED <<listVars, panic>>
  /\ UNCHANGED <<obsvVars, propVars, exprVars, treeVars, bindVars,
                 listenVars, boundVars, callVars>>

\* The entries the loop of next looks at, from self.index on (0-based).
Ahead(i) == {j \in DOMAIN plist : j > index[i]}

\* PropertyListIterator::next, up to its return: the first entry at or after
\* self.index whose try_deref is Some, or None; a try_deref of an entry whose
\* target is exclusively borrowed panics.
PropertyListIterator_next(i) ==
  LET hits == {j \in Ahead(i) : Entry_is_some(plist[j]).msg # NoPanic
                                \/ Entry_is_some(plist[j]).some}
      at == CHOOSE j \in hits : \A n \in hits : j <= n
  IN IF hits = {} THEN [msg |-> NoPanic, some |-> FALSE, at |-> Len(plist)]
     ELSE [msg |-> Entry_is_some(plist[at]).msg,
           some |-> Entry_is_some(plist[at]).some, at |-> at]

\* One call of next on iterator i. The call that returns None cleans the
\* list; the for loop then drops the iterator.
PropertyListIterator_step(i) ==
  /\ panic = NoPanic /\ index[i] # NoIter
  /\ LET r == PropertyListIterator_next(i) IN
       /\ panic' = r.msg
       /\ index' = [index EXCEPT ![i] =
                      IF r.msg = NoPanic /\ ~r.some THEN NoIter ELSE r.at]
       /\ yielded' = [yielded EXCEPT ![i] =
                        IF r.some THEN Append(@, plist[r.at])
                        ELSE IF r.msg = NoPanic THEN <<>> ELSE @]
       /\ started' = [started EXCEPT ![i] =
                        IF r.msg = NoPanic /\ ~r.some THEN <<>> ELSE @]
       /\ plist' = IF r.msg = NoPanic /\ ~r.some
                     THEN PropertyList_clean(plist) ELSE plist
       /\ last' = [Op("plist_next", NoCell, i, 0,
                      IF r.msg # NoPanic THEN "panic"
                      ELSE IF r.some THEN "Some" ELSE "None")
                     EXCEPT !.list = IF r.some THEN yielded'[i]
                                     ELSE yielded[i]]
  /\ UNCHANGED <<weak_items, pushed>>
  /\ UNCHANGED <<obsvVars, propVars, exprVars, treeVars, bindVars,
                 listenVars, boundVars, callVars>>

\* ---------------------------------------------------------------- Bindings
\* The closure of Bindings::bind for dest d and source s, run on the values
\* val: p_dest_ptr.deref_mut().set(p_src_ptr.deref().get().clone()). Both
\* views are temporaries of the statement.
update_NoCopy(d, s, val) == [msg |-> NoPanic, val |-> val]

update(d, s, val) ==
  IF pRc[d] = 0 THEN [msg |-> UnwrapNone, val |-> val]
  ELSE IF Property_count_borrow_mut(pCounts[d]).msg # NoPanic
    THEN [msg |-> Property_count_borrow_mut(pCounts[d]).msg, val |-> val]
  ELSE IF pRc[s] = 0 THEN [msg |-> UnwrapNone, val |-> val]
  ELSE IF Property_count_borrow(pCounts[s]).msg # NoPanic
    THEN [msg |-> Property_count_borrow(pCounts[s]).msg, val |-> val]
  ELSE [msg |-> NoPanic, val |-> [val EXCEPT ![d] = val[s]]]

\* The keys of the HashMap, and the orders in which an iteration over it can
\* visit them.
Keys(cb) == {d \in AllProps : cb[d] # NoProp}
Orders(cb) ==
  {o \in [1..Cardinality(Keys(cb)) -> Keys(cb)] :
     \A i, j \in DOMAIN o : i # j => o[i] # o[j]}

RunCallbacks_HeadOnly(cb, o, val) ==
  IF o = <<>> THEN [msg |-> NoPanic, val |-> val]
  ELSE update(Head(o), cb[Head(o)], val)

\* The callbacks of cb run in the order o, up to the first panic.
RECURSIVE RunCallbacks(_, _, _)
RunCallbacks(cb, o, val) ==
  IF o = <<>> THEN [msg |-> NoPanic, val |-> val]
  ELSE LET r == update(Head(o), cb[Head(o)], val) IN
         IF r.msg # NoPanic THEN r ELSE RunCallbacks(cb, Tail(o), r.val)

\* The dests that a visit in the order o leaves with a value read through
\* the value_cell pointer of a dropped Property (a read of freed memory), or
\* copied from such a dest later in the same visit.
RECURSIVE StaleReads(_, _, _)
StaleReads(cb, o, T) ==
  IF o = <<>> THEN T
  ELSE StaleReads(cb, Tail(o),
                  IF ~pAlive[cb[Head(o)]] \/ cb[Head(o)] \in T
                    THEN T \cup {Head(o)} ELSE T \ {Head(o)})

BindFrame ==
  /\ UNCHANGED <<pAlive, pCounts, pRc, pptrTarget, pRefs, pMut>>
  /\ UNCHANGED <<obsvVars, exprVars, treeVars, listVars, listenVars,
                 boundVars, callVars, iterVars>>

\* Bindings::bind(&mut d, &s): the closure runs once, then it is stored under
\* the id of d (replacing the closure stored there).
Bindings_bind(d, s) ==
  /\ panic = NoPanic /\ pAlive[d] /\ pAlive[s] /\ d # s
  /\ LET r == update(d, s, pValue) IN
       /\ pValue' = r.val
       /\ panic' = r.msg
       /\ IF r.msg = NoPanic
            THEN /\ update_callbacks' = [update_callbacks EXCEPT ![d] = s]
                 /\ released' = released \ {d}
            ELSE UNCHANGED <<update_callbacks, released>>
       /\ last' = Op("bind", d, 0, s, IF r.msg = NoPanic THEN "ok" ELSE "panic")
  /\ BindFrame

\* Bindings::update: every stored closure runs, in the order of the HashMap.
\* A closure whose deref succeeds on a dropped source reads freed memory:
\* the run faults, or the dest receives whatever the memory holds.
Bindings_update ==
  /\ panic = NoPanic
  /\ \E o \in Orders(update_callbacks) :
       LET r == RunCallbacks(update_callbacks, o, pValue)
           T == StaleReads(update_callbacks, o, {}) IN
         /\ \/ /\ r.msg # NoPanic \/ T = {}
               /\ pValue' = r.val
               /\ panic' = r.msg
            \/ /\ r.msg = NoPanic /\ T # {}
               /\ pValue' \in {f \in [AllProps -> Values] :
                                 \A q \in AllProps \ T : f[q] = r.val[q]}
               /\ UNCHANGED panic
            \/ /\ r.msg = NoPanic /\ T # {}
               /\ pValue' = pValue
               /\ panic' = UseAfterFree
         /\ last' = [Op("bind_update", NoCell, 0, Len(o),
                        IF panic' = NoPanic THEN "ok" ELSE "panic")
                       EXCEPT !.list = o]
  /\ UNCHANGED <<update_callbacks, released>>
  /\ BindFrame

Bindings_unbind_Keep(d) ==
  /\ panic = NoPanic /\ pAlive[d]
  /\ released' = released \cup {d}
  /\ last' = Op("unbind", d, 0, 0, "ok")
  /\ UNCHANGED <<update_callbacks, pValue, panic>>
  /\ BindFrame

\* Bindings::unbind(&d)
Bindings_unbind(d) ==
  /\ panic = NoPanic /\ pAlive[d]
  /\ update_callbacks' = [update_callbacks EXCEPT ![d] = NoProp]
  /\ released' = released \cup {d}
  /\ last' = Op("unbind", d, 0, 0, "ok")
  /\ UNCHANGED <<pValue, panic>>
  /\ BindFrame

\* Bindings::clear
Bindings_clear ==
  /\ panic = NoPanic
  /\ update_callbacks' = [q \in AllProps |-> NoProp]
  /\ released' = released \cup Keys(update_callbacks)
  /\ last' = Op("bind_clear", NoCell, 0, 0, "ok")
  /\ UNCHANGED <<pValue, panic>>
  /\ BindFrame

\* Pointers, guarded views and direct access (no handler is registered).
Next ==
  \/ \E p \in Ptrs, c \in Cells : ObservablePtr_new(p, c)
  \/ \E p \in Ptrs, q \in Ptrs : ObservablePtr_clone(p, q)
  \/ \E c \in Cells : Observable_get(c)
  \/ \E c \in Cells, v \in Values : Observable_set(c, v)
  \/ \E c \in Cells : Observable_drop(c)
  \/ \E c \in Cells : Observable_modify_inner(c)
  \/ \E c \in Cells : ModifyInnerRef_drop(c)
  \/ \E p \in Ptrs : ObservablePtr_try_deref(p)
  \/ \E p \in Ptrs : ObservablePtr_try_deref_mut(p)
  \/ \E p \in Ptrs : ObservablePtr_deref(p)
  \/ \E p \in Ptrs : ObservablePtr_deref_mut(p)
  \/ \E p \in Ptrs : ObservableRef_drop(p)
  \/ \E p \in Ptrs : ObservableMutRef_drop(p)
  \/ \E p \in Ptrs, v \in Values : ObservableMutRef_set(p, v)

Spec == Init /\ [][Next]_vars

\* Handlers and the notifications of set, modify_inner and drop.
NextNotify ==
  \/ \E c \in Cells, v \in Values : Observable_set(c, v)
  \/ \E c \in Cells, h \in Handlers : Observable_add_invalidation_handler(c, h)
  \/ \E h \in Handlers : InvalidationHandler_drop(h)
  \/ \E c \in Cells : Observable_drop(c)
  \/ \E c \in Cells : Observable_modify_inner(c)
  \/ \E c \in Cells, v \in Values : ModifyInnerRef_deref_mut(c, v)
  \/ \E c \in Cells : ModifyInnerRef_drop(c)

SpecNotify == Init /\ [][NextNotify]_vars

\* Property, PropertyPtr and their guarded views.
NextProp ==
  \/ \E pp \in PPtrs, q \in Props : PropertyPtr_new(pp, q)
  \/ \E pp \in PPtrs, qq \in PPtrs : PropertyPtr_clone(pp, qq)
  \/ \E q \in Props, v \in Values : Property_set(q, v)
  \/ \E q \in Props : Property_drop(q)
  \/ \E pp \in PPtrs : PropertyPtr_try_deref(pp)
  \/ \E pp \in PPtrs : PropertyPtr_try_deref_mut(pp)
  \/ \E pp \in PPtrs : PropertyPtr_deref(pp)
  \/ \E pp \in PPtrs : PropertyPtr_deref_mut(pp)
  \/ \E pp \in PPtrs : PropertyRef_drop(pp)
  \/ \E pp \in PPtrs : PropertyMutRef_drop(pp)
  \/ \E pp \in PPtrs, v \in Values : PropertyMutRef_set(pp, v)

SpecProp == Init /\ [][NextProp]_vars

\* One Expression over the operand cells.
NextExpr ==
  \/ \E ts \in TargetLists(1) : Expression_new(1, ts, "sum")
  \/ Expression_get(1)
  \/ \E c \in Operands, v \in Values : Observable_set(c, v)
  \/ \E c \in Operands : Observable_drop(c)
  \/ \E c \in Operands : Observable_modify_inner(c)
  \/ \E c \in Operands, v \in Values : ModifyInnerRef_deref_mut(c, v)
  \/ \E c \in Operands : ModifyInnerRef_drop(c)

SpecExpr == Init /\ [][NextExpr]_vars

\* One expr::and over the operand cells, or over the first few of them, with
\* cells of type bool.
Bools == {0, 1}
AndTargets == {SubSeq(ts, 1, n) : ts \in TargetLists(1), n \in 0..NumOperands}

NextAnd ==
  \/ \E ts \in AndTargets : Expression_new(1, ts, "and")
  \/ Expression_get(1)
  \/ \E c \in Operands, v \in Bools : Observable_set(c, v)
  \/ \E c \in Operands : Observable_drop(c)

SpecAnd == Init /\ [][NextAnd]_vars

\* One Expression over the operand cells, and pointers to the operands and
\* to its value field, with their shared views. The program changes the
\* first operand.
Viewable == Operands \cup {ValueCell(1)}

NextBorrow ==
  \/ \E ts \in TargetLists(1) : Expression_new(1, ts, "sum")
  \/ Expression_get(1)
  \/ \E v \in Values : v # value[Probed] /\ Observable_set(Probed, v)
  \/ \E p \in Ptrs, c \in Viewable :
       /\ \A q \in Ptrs : q < p => ptrTarget[q] # NoCell /\ ptrTarget[q] <= c
       /\ ObservablePtr_new(p, c)
  \/ \E p \in Ptrs : ObservablePtr_deref(p)
  \/ \E p \in Ptrs : ObservableRef_drop(p)

SpecBorrow == Init /\ [][NextBorrow]_vars

\* A chain of Expressions: each one has the one before it as its operand.
NextNest ==
  \/ \E e \in Exprs : \E ts \in TargetLists(e) : Expression_new(e, ts, "sum")
  \/ \E e \in Exprs : Expression_get(e)
  \/ \E c \in Operands, v \in Values : Observable_set(c, v)

SpecNest == Init /\ [][NextNest]_vars

\* One Expression over the operand cells with listeners downstream: handlers
\* registered on its value field through a pointer, and a second Expression
\* that has it as its operand. The program changes the first operand.
NextDown ==
  \/ \E e \in 1..2 : \E ts \in TargetLists(e) : Expression_new(e, ts, "sum")
  \/ Expression_get(1)
  \/ \E v \in Values : v # value[Probed] /\ Observable_set(Probed, v)
  \/ \E h \in Handlers :
       /\ built[1]
       /\ \A g \in Handlers : g < h => Registrations(g) > 0 \/ ~hAlive[g]
       /\ ObservableRef_add_invalidation_handler(ValueCell(1), h)
  \/ \E h \in Handlers : Registrations(h) > 0 /\ InvalidationHandler_drop(h)

SpecDown == Init /\ [][NextDown]_vars

\* A node of expr/mod.rs over the operand cells.
NextTree ==
  \/ \E t \in Trees : Tree_new(t)
  \/ Tree_get
  \/ \E h \in Handlers : Tree_add_invalidation_handler(h)
  \/ \E c \in Operands, v \in Values : Observable_set(c, v)
  \/ \E c \in Operands : Observable_drop(c)

SpecTree == Init /\ [][NextTree]_vars

\* A WeakList used directly, and the owners of its referents.
NextList ==
  \/ \E h \in Handlers, temp \in BOOLEAN : WeakList_push(h, temp)
  \/ \E h \in Handlers : InvalidationHandler_drop(h)
  \/ WeakList_len
  \/ WeakList_len_no_clean
  \/ WeakList_upgrade

SpecList == Init /\ [][NextList]_vars

\* A PropertyList, its Properties, and views taken through other pointers.
NextPList ==
  \/ \E q \in Props : PropertyList_push(q)
  \/ PropertyList_iterate
  \/ \E q \in Props : Property_drop(q)
  \/ \E pp \in PPtrs, q \in Props : PropertyPtr_new(pp, q)
  \/ \E pp \in PPtrs : PropertyPtr_try_deref(pp)
  \/ \E pp \in PPtrs : PropertyPtr_try_deref_mut(pp)
  \/ \E pp \in PPtrs : PropertyRef_drop(pp)
  \/ \E pp \in PPtrs : PropertyMutRef_drop(pp)

SpecPList == Init /\ [][NextPList]_vars

\* Traversals of one PropertyList, step by step and interleaved. A program
\* pushes each Property once, in the order of their numbers.
NextIter ==
  \/ \E q \in 1..MaxPushes :
       /\ \A n \in DOMAIN plist : plist[n] < q
       /\ \A n \in AllProps : n < q => ~pAlive[n] \/ Count(n, plist) > 0
       /\ PropertyList_push(q)
  \/ \E q \in AllProps : Count(q, plist) > 0 /\ Property_drop(q)
  \/ \E i \in Iters :
       (\A n \in Iters : n < i => index[n] # NoIter) /\ PropertyList_iter(i)
  \/ \E i \in Iters : PropertyListIterator_step(i)

SpecIter == Init /\ [][NextIter]_vars

\* Bindings over Properties that a program sets. The Properties
\* are numbered so that a binding pulls from a lower number (no cycles).
NextBind ==
  \/ \E d \in BindProps, s \in BindProps : s < d /\ Bindings_bind(d, s)
  \/ Bindings_update
  \/ \E d \in BindProps : Bindings_unbind(d)
  \/ Bindings_clear
  \/ \E q \in BindProps, v \in Values : Property_set(q, v)

SpecBind == Init /\ [][NextBind]_vars

\* Bindings over Properties that a program drops, with views of them taken
\* through PropertyPtrs.
NextStale ==
  \/ \E d \in BindProps, s \in BindProps : s < d /\ Bindings_bind(d, s)
  \/ Bindings_update
  \/ \E q \in BindProps : Property_drop(q)
  \/ \E q \in BindProps, v \in Values : Property_set(q, v)
  \/ \E pp \in PPtrs, q \in BindProps : PropertyPtr_new(pp, q)
  \/ \E pp \in PPtrs : PropertyPtr_deref(pp)
  \/ \E pp \in PPtrs : PropertyRef_drop(pp)

SpecStale == Init /\ [][NextStale]_vars

\* Listeners over the operand cells. The handlers are made in the order of
\* their numbers.
NextListen ==
  \/ \E h \in Handlers, ts \in Chains :
       /\ \A g \in Handlers : g < h => (chain[g] # <<>> \/ ~hAlive[g])
       /\ ListenChain_with(h, ts)
  \/ Listeners_release_all
  \/ \E c \in Operands, v \in Values : Observable_set(c, v)

SpecListen == Init /\ [][NextListen]_vars

\* Handlers registered in each of the three ways, also more than once on the
\* same cell: through ListenChains, as the handler of an Expression whose
\* targets may repeat a cell, and directly (on the first operand cell). The
\* program registers in that order, drops handlers and releases the Listeners,
\* then changes the cells that have entries.
RepeatedTargets ==
  {ts \in [1..NumOperands -> Operands] : \A i \in 1..(NumOperands - 1) :
                                            ts[i] <= ts[i + 1]}

\* The handler h has been registered or dropped: the handlers are put to use
\* in the order of their numbers.
Used(h) ==
  \/ ~hAlive[h] \/ chain[h] # <<>>
  \/ \E c \in Operands : Count(h, on_invalidated[c]) > 0

NextRepeat ==
  \/ \E h \in Handlers, ts \in Chains :
       /\ ~built[1] /\ handlers = <<>> /\ \A g \in Handlers : g < h => Used(g)
       /\ ListenChain_with(h, ts)
  \/ \E ts \in RepeatedTargets : Expression_new(1, ts, "sum")
  \/ \E h \in Handlers :
       /\ chain[h] = <<>> /\ \A g \in Handlers : g < h => Used(g)
       /\ last.op \in {"expr_new", "add_handler"}
       /\ Len(SelectSeq(on_invalidated[Probed],
                        LAMBDA g : g \in Handlers)) < MaxEntries
       /\ Observable_add_invalidation_handler(Probed, h)
  \/ \E h \in Handlers :
       /\ built[1] /\ last.op # "set" /\ chain[h] = <<>> /\ Used(h)
       /\ InvalidationHandler_drop(h)
  \/ built[1] /\ last.op # "set" /\ handlers # <<>> /\ Listeners_release_all
  \/ \E c \in Operands, v \in Values :
       /\ built[1] /\ v # value[c] /\ on_invalidated[c] # <<>>
       /\ Observable_set(c, v)

SpecRepeat == Init /\ [][NextRepeat]_vars

\* A Property bound to a node over the operand cells.
NextBound ==
  \/ \E t \in Trees : Tree_new(t)
  \/ BoundField_bind
  \/ BoundField_unbind
  \/ BoundField_get
  \/ \E c \in Operands, v \in Values : Observable_set(c, v)
  \/ \E c \in Operands : Observable_drop(c)

SpecBound == Init /\ [][NextBound]_vars

\* Expression 1 and handlers whose closures call back into the library.
NextCall ==
  \/ \E ts \in TargetLists(1) : Expression_new(1, ts, "sum")
  \/ \E h \in Handlers, cb \in Closures : InvalidationHandler_new(h, cb)
  \/ \E c \in Operands \cup {ValueCell(1)}, h \in Handlers :
       ObservableRef_add_invalidation_handler(c, h)
  \/ \E c \in Operands, v \in Values : Observable_set_calling(c, v)
  \/ \E c \in Operands : Observable_drop_calling(c)
  \/ Expression_get_calling(1)

SpecCall == Init /\ [][NextCall]_vars

\* Exclusive views taken through pointers, and what can be done with them.
NextMutRef ==
  \/ \E p \in Ptrs, c \in Cells : ObservablePtr_new(p, c)
  \/ \E c \in Cells, h \in Handlers : Observable_add_invalidation_handler(c, h)
  \/ \E p \in Ptrs : ObservablePtr_deref_mut(p)
  \/ \E p \in Ptrs, v \in Values : ObservableMutRef_set(p, v)
  \/ \E p \in Ptrs : ObservableMutRef_modify_inner(p)
  \/ \E c \in Cells : Observable_modify_inner(c)
  \/ \E c \in Cells : ModifyInnerRef_drop(c)
  \/ \E p \in Ptrs : ObservableMutRef_drop(p)

SpecMutRef == Init /\ [][NextMutRef]_vars

\* Handlers that access, through a pointer, the cell that notifies them.
NextGuard ==
  \/ \E p \in Ptrs, c \in Cells :
       (\A q \in Ptrs : q < p => ptrTarget[q] # NoCell /\ ptrTarget[q] <= c)
       /\ ObservablePtr_new(p, c)
  \/ \E h \in Handlers, cb \in GuardClosures :
       (\A g \in Handlers : callback[g] = Counter)
       /\ InvalidationHandler_new(h, cb)
  \/ \E c \in Cells, h \in Handlers :
       (\A g \in Handlers : g < h => Registrations(g) > 0 \/ ~hAlive[g])
       /\ ObservableRef_add_invalidation_handler(c, h)
  \/ \E p \in Ptrs : ObservablePtr_deref_mut(p)
  \/ \E p \in Ptrs : ObservableMutRef_drop(p)
  \/ \E p \in Ptrs, v \in Values : ObservableMutRef_set_calling(p, v)

SpecGuard == Init /\ [][NextGuard]_vars

\* Handlers that drop or register handlers while a notification runs.
NextWave ==
  \/ \E h \in Handlers, cb \in WaveClosures :
       (\A g \in Handlers : callback[g] = Counter)
       /\ InvalidationHandler_new(h, cb)
  \/ \E c \in Cells, h \in Handlers :
       (\A g \in Handlers : g < h => Registrations(g) > 0 \/ ~hAlive[g])
       /\ ObservableRef_add_invalidation_handler(c, h)
  \/ \E h \in Handlers : InvalidationHandler_drop(h)
  \/ \E c \in Cells, v \in Values : Observable_set_calling(c, v)

SpecWave == Init /\ [][NextWave]_vars

\* ------------------------------------------------------------------ claims
\* A handler registered once on c and still owned.
LiveOnce(h, c) == hAlive[h] /\ Count(h, on_invalidated[c]) = 1

\* C1: on an Observable where each handler is registered once, set(v) with
\* v different from the current value stores v (get returns it) and calls
\* every handler that is still alive exactly once; set(v) with v equal to the
\* current value leaves the value alone and calls no handler.
SetFiresOncePerChange ==
  [][\A c \in Cells :
       (last'.op = "set" /\ last'.cell = c) =>
         IF value[c] # last'.arg
           THEN /\ value'[c] = last'.arg
                /\ \A h \in Handlers : LiveOnce(h, c) => fired'[h] = 1
           ELSE /\ value'[c] = value[c]
                /\ fired' = NoFired]_vars

SetFiredWitness ==
  /\ last.op = "set" /\ value[last.cell] = last.arg
  /\ \E h \in Handlers : fired[h] = 1

\* C2: try_deref and try_deref_mut of a pointer (a clone included) never
\* return None while the target is alive (they return Some unless the call
\* aborts on a borrow violation), a dropped target stays dropped, and on a
\* dropped target every call returns None.
DeadForever ==
  [][/\ \A c \in Cells : ~alive[c] => ~alive'[c]
     /\ \A p \in Ptrs :
          (last'.op \in {"try_deref", "try_deref_mut"} /\ last'.ptr = p) =>
            /\ alive[ptrTarget[p]] => last'.res \in {"Some", "panic"}
            /\ ~alive[ptrTarget[p]] =>
                 /\ last'.res = "None"
                 /\ refs' = refs /\ mutref' = mutref]_vars

DeadPointerWitness ==
  /\ last.op \in {"try_deref", "try_deref_mut"}
  /\ last.res = "None" /\ ~alive[last.cell]
  /\ \E p \in Ptrs : p # last.ptr /\ ptrTarget[p] = last.cell

\* C3: on a live cell shared and exclusive borrows never coexist and there is
\* at most one exclusive view: mutable implies immutable = 0.
BorrowExclusion ==
  \A c \in Cells :
    alive[c] =>
      /\ borrow_counts[c].mutable => borrow_counts[c].immutable = 0
      /\ Cardinality({p \in Ptrs : ptrTarget[p] = c /\ mutref[p]})
           + (IF modify[c] THEN 1 ELSE 0) <= 1
      /\ ExclusiveView(c) => SharedViews(c) = 0

ExclusiveHeldWitness ==
  \E c \in Cells :
    /\ alive[c] /\ borrow_counts[c].mutable
    /\ last.cell = c /\ last.op \in {"try_deref", "deref"}
    /\ panic = MutablyBorrowed

\* C4: on a live cell a shared acquisition (try_deref / deref) aborts exactly
\* when an exclusive view is outstanding ("value already mutably borrowed");
\* an exclusive acquisition (try_deref_mut / deref_mut) aborts exactly when an
\* exclusive view is outstanding (same message) or else a shared view is
\* outstanding ("value already immutably borrowed"); otherwise it succeeds.
AcquisitionFailsOnConflictOnly ==
  [][\A p \in Ptrs :
       /\ (/\ last'.op \in {"try_deref", "deref"} /\ last'.ptr = p
           /\ alive[ptrTarget[p]]) =>
            IF ExclusiveView(ptrTarget[p])
              THEN panic' = MutablyBorrowed /\ last'.res = "panic"
              ELSE panic' = NoPanic /\ last'.res = "Some"
       /\ (/\ last'.op \in {"try_deref_mut", "deref_mut"} /\ last'.ptr = p
           /\ alive[ptrTarget[p]]) =>
            IF ExclusiveView(ptrTarget[p])
              THEN panic' = MutablyBorrowed /\ last'.res = "panic"
              ELSE IF SharedViews(ptrTarget[p]) > 0
                THEN panic' = ImmutablyBorrowed /\ last'.res = "panic"
                ELSE panic' = NoPanic /\ last'.res = "Some"]_vars

ReadThenWriteWitness ==
  /\ last.op \in {"try_deref_mut", "deref_mut"}
  /\ alive[last.cell] /\ panic = ImmutablyBorrowed

\* C5: while a cell is alive its shared counter is the number of outstanding
\* ObservableRef views and its exclusive flag is set iff an ObservableMutRef
\* or ModifyInnerRef is outstanding; with no view left the counts are
\* (0, false).
CountsMatchViews ==
  \A c \in Cells :
    alive[c] =>
      /\ borrow_counts[c].immutable = SharedViews(c)
      /\ borrow_counts[c].mutable = ExclusiveView(c)
      /\ (SharedViews(c) = 0 /\ ~ExclusiveView(c)) =>
           borrow_counts[c] = BorrowCounts_new

AllReleasedWitness ==
  /\ last.op \in {"ref_release", "mut_release"} /\ last.res = "ok"
  /\ alive[last.cell] /\ borrow_counts[last.cell] = BorrowCounts_new

\* C6: a direct set on an Observable while a guarded view of it (shared or
\* exclusive) is outstanding aborts, and a direct get while an exclusive view
\* is outstanding aborts.
DirectAccessIsGuarded ==
  [][\A c \in Cells :
       /\ (/\ last'.op = "set" /\ last'.cell = c
           /\ (ExclusiveView(c) \/ SharedViews(c) > 0)) => panic' # NoPanic
       /\ (/\ last'.op = "get" /\ last'.cell = c
           /\ ExclusiveView(c)) => panic' # NoPanic]_vars

DerefOfDeadTargetIsFatal ==
  [][/\ \A p \in Ptrs :
          (last'.op \in {"deref", "deref_mut"} /\ last'.ptr = p) =>
            IF ~alive[ptrTarget[p]]
              THEN panic' = UnwrapNone /\ refs' = refs /\ mutref' = mutref
              ELSE LET r == IF last'.op = "deref" THEN try_deref(p)
                            ELSE try_deref_mut(p)
                   IN /\ last'.res = r.res /\ panic' = r.msg
                      /\ borrow_counts'[ptrTarget[p]] = r.bc
     /\ \A pp \in PPtrs :
          (last'.op \in {"p_deref", "p_deref_mut"} /\ last'.ptr = pp) =>
            IF ~pAlive[pptrTarget[pp]]
              THEN panic' = UnwrapNone /\ pRefs' = pRefs /\ pMut' = pMut
              ELSE LET r == IF last'.op = "p_deref" THEN Property_try_deref(pp)
                            ELSE Property_try_deref_mut(pp)
                   IN /\ last'.res = r.res /\ panic' = r.msg
                      /\ pCounts'[pptrTarget[pp]] = r.bc]_vars

RECURSIVE Total(_, _)
Total(ts, n) ==
  IF n = 0 THEN 0
  ELSE Total(ts, n - 1) + (IF alive[ts[n]] THEN value[ts[n]] ELSE 0)

Resolved(ts) == Total(ts, Len(ts))

\* C11: right after Expression::new the node is clean, its cached value is
\* resolve applied to the values its operands have at construction, resolve
\* has been called exactly once, and the node's handler (alive) is on the
\* list of every operand.
NewIsCleanAndComputed ==
  [][\A e \in Exprs :
       (last'.op = "expr_new" /\ last'.ptr = e /\ last'.res = "ok") =>
         /\ built'[e] /\ ~dirty'[e]
         /\ value'[ValueCell(e)] = Resolved(targets'[e])
         /\ last'.arg = value'[ValueCell(e)]
         /\ last'.runs = 1
         /\ hAlive'[ExprHandler(e)]
         /\ \A i \in DOMAIN targets'[e] :
              Count(ExprHandler(e), on_invalidated'[targets'[e][i]]) >= 1]_vars

NewComputedWitness ==
  /\ last.op = "expr_new" /\ last.res = "ok" /\ last.arg > 0
  /\ Len(targets[last.ptr]) > 1

\* No ModifyInnerRef of a target of e is outstanding.
NoOpenScope(e) == \A i \in DOMAIN targets[e] : ~modify[targets[e][i]]

\* C12: for an Expression over Observable cells, whatever set calls were made
\* on its operands and however many get calls were skipped, a get returns
\* resolve applied to the current values of its live operands.
GetReturnsResolved ==
  [][\A e \in Exprs :
       (/\ last'.op = "expr_get" /\ last'.ptr = e /\ last'.res = "ok"
        /\ NoOpenScope(e)) =>
         last'.arg = Resolved(targets[e])]_vars

RecomputedGetWitness ==
  /\ last.op = "expr_get" /\ last.res = "ok" /\ last.runs = 1
  /\ last.arg > 1
  /\ \A i \in DOMAIN targets[last.ptr] : alive[targets[last.ptr][i]]

\* C13: in every reachable state, an Expression whose dirty flag is false
\* holds a cached value equal to resolve applied to the current values of
\* its live operands.
CleanMeansCurrent ==
  \A e \in Exprs :
    (built[e] /\ ~dirty[e]) => value[ValueCell(e)] = Resolved(targets[e])

\* C13 as amended: the same in every reachable state in which no
\* ModifyInnerRef of an operand is outstanding (a write through that view is
\* announced when the view is released).
CleanMeansCurrentOutsideScopes ==
  \A e \in Exprs :
    (built[e] /\ ~dirty[e] /\ NoOpenScope(e)) =>
      value[ValueCell(e)] = Resolved(targets[e])

CleanAfterDropWitness ==
  /\ last.op = "expr_get" /\ last.res = "ok" /\ last.runs = 1
  /\ ~dirty[last.ptr] /\ value[last.cell] > 0
  /\ \E i \in DOMAIN targets[last.ptr] : ~alive[targets[last.ptr][i]]

\* C14: a get leaves the node clean with the value it returned in the value
\* field, and a get of a clean node (so any get that follows a get with no
\* operand change in between) returns that same value, does not call resolve,
\* takes no guarded view, calls no handler and leaves every borrow count and
\* every value alone.
GetIsCached ==
  /\ [](\A e \in Exprs :
          (last.op = "expr_get" /\ last.ptr = e /\ last.res = "ok") =>
            ~dirty[e] /\ last.arg = value[ValueCell(e)])
  /\ [][\A e \in Exprs :
          (~dirty[e] /\ last'.op = "expr_get" /\ last'.ptr = e) =>
            /\ last'.res = "ok" /\ last'.arg = value[ValueCell(e)]
            /\ last'.runs = 0 /\ last'.views = 0
            /\ fired' = NoFired
            /\ borrow_counts' = borrow_counts /\ value' = value]_vars

\* A get answered from the cache some time after a get that recomputed: an
\* operand is gone, which made the node dirty, and the node is clean again.
CachedGetWitness ==
  /\ last.op = "expr_get" /\ last.res = "ok" /\ last.runs = 0
  /\ ~dirty[last.ptr] /\ last.arg > 0
  /\ \E i \in DOMAIN targets[last.ptr] : ~alive[targets[last.ptr][i]]

\* The positions of the targets of e whose cell is still alive.
LiveTargets(e) == {i \in DOMAIN targets[e] : alive[targets[e][i]]}

RECURSIVE SumAt(_, _)
SumAt(e, S) ==
  IF S = {} THEN 0
  ELSE LET i == CHOOSE x \in S : TRUE
       IN value[targets[e][i]] + SumAt(e, S \ {i})

\* C16: once operand cells of a sum Expression have been dropped, get returns
\* the sum of the values of the operands that are left: a vanished addend
\* counts as 0, and with every operand gone the result is 0.
SumSkipsVanished ==
  [][\A e \in Exprs :
       (/\ last'.op = "expr_get" /\ last'.ptr = e
        /\ LiveTargets(e) # DOMAIN targets[e] /\ NoOpenScope(e)) =>
         /\ last'.res = "ok"
         /\ last'.arg = SumAt(e, LiveTargets(e))
         /\ LiveTargets(e) = {} => last'.arg = 0]_vars

\* [1, 1] with one of the cells dropped yields 1.
VanishedAddendWitness ==
  /\ last.op = "expr_get" /\ last.res = "ok" /\ last.arg > 0
  /\ \E i \in DOMAIN targets[last.ptr] :
       ~alive[targets[last.ptr][i]] /\ value[targets[last.ptr][i]] > 0
  /\ \E i \in DOMAIN targets[last.ptr] :
       alive[targets[last.ptr][i]] /\ value[targets[last.ptr][i]] = last.arg

\* The value cell c would hold if every Expression below it were recomputed
\* now: an operand cell holds its value (0 when it is gone), the value field
\* of Expression d the sum over the targets of d.
RECURSIVE UpToDate(_)
UpToDate(c) ==
  IF c \in Operands
    THEN IF alive[c] THEN value[c] ELSE 0
    ELSE LET ts == targets[c - NumCells - NumOperands]
             RECURSIVE Over(_)
             Over(n) == IF n = 0 THEN 0 ELSE Over(n - 1) + UpToDate(ts[n])
         IN Over(Len(ts))

\* Expression e has the value field of Expression d among its targets.
Over(e, d) == \E i \in DOMAIN targets[e] : targets[e][i] = ValueCell(d)

\* C19: with an Expression e that has another Expression d among its
\* operands, a set that changes a leaf cell of d makes e dirty, and a get of e
\* returns resolve applied to the up-to-date value of d, whether or not d was
\* read first.
NestedInvalidationForwarded ==
  [][\A e \in Exprs, d \in Exprs :
       (built[e] /\ built[d] /\ Over(e, d)) =>
         /\ \A c \in Operands :
              (/\ last'.op = "set" /\ last'.cell = c /\ value'[c] # value[c]
               /\ \E i \in DOMAIN targets[d] : targets[d][i] = c) =>
                dirty'[e]
         /\ (last'.op = "expr_get" /\ last'.ptr = e /\ last'.res = "ok") =>
              last'.arg = UpToDate(ValueCell(e))]_vars

\* The node in hand is a UnaryExpression or a BinaryExpression.
IsFnNode == tree # NoTree /\ tree.type \in {"unary", "binary"}

\* C15: a get of a UnaryExpression or BinaryExpression that directly follows
\* a get of it (no operand changed in between) returns the same value and
\* makes no call of the combining function f.
NodeGetIsCached ==
  [][(/\ IsFnNode /\ last.op = "tree_get" /\ last.res = "ok"
      /\ last'.op = "tree_get") =>
       /\ last'.res = "ok" /\ last'.arg = last.arg
       /\ last'.runs = 0]_vars

\* Some leaf of the node in hand has vanished.
LeafVanished ==
  tree # NoTree /\ \E i \in DOMAIN Leaves(tree) : handle[Leaves(tree)[i]] = 0

\* C17: a get of a node one of whose operands has vanished returns a value
\* and raises no fatal error.
VanishedOperandNoError ==
  [][(LeafVanished /\ last'.op = "tree_get") =>
       last'.res = "ok" /\ panic' = NoPanic]_vars

\* The set of the cells at the leaves of the node t.
RECURSIVE LeafCells(_)
LeafCells(t) ==
  CASE t.type = "leaf" -> {t.cell}
    [] t.type = "unary" -> LeafCells(t.src)
    [] t.type = "binary" -> LeafCells(t.lhs) \cup LeafCells(t.rhs)
    [] t.type = "and" -> LeafCells(t.lhs) \cup LeafCells(t.rhs)
    [] t.type = "to_str" -> LeafCells(t.value_expr)
    [] OTHER -> {}

\* Handler h was passed to add_invalidation_handler of the node in hand (the
\* only way onto a list of an operand cell under SpecTree).
Listening(h) ==
  tree # NoTree /\ \E c \in Operands : Count(h, on_invalidated[c]) > 0

\* C18: add_invalidation_handler on a node registers the handler on every
\* (living) leaf cell of the tree, whatever its depth, and a set that changes
\* the value of any leaf invokes the handler.
LeafChangeReachesListener ==
  /\ [](\A h \in Handlers :
          Listening(h) =>
            \A c \in LeafCells(tree) :
              alive[c] => Count(h, on_invalidated[c]) >= 1)
  /\ [][\A h \in Handlers :
          \A c \in LeafCells(tree) :
            (/\ Listening(h) /\ last'.op = "set" /\ last'.cell = c
             /\ value'[c] # value[c]) =>
              fired'[h] >= 1]_vars

\* A listener of a node of depth two was invoked by a set of the right leaf
\* of the inner node.
DeepLeafFiredWitness ==
  /\ tree # NoTree /\ tree.type = "to_str"
  /\ tree.value_expr.type = "unary"
  /\ tree.value_expr.src.type = "binary"
  /\ last.op = "set" /\ last.cell = tree.value_expr.src.rhs.cell
  /\ \E h \in Handlers : fired[h] >= 1

\* The number of entries of the sequence of referents q whose referent still
\* has a strong owner.
RECURSIVE Owned(_)
Owned(q) ==
  IF q = <<>> THEN 0
  ELSE Owned(Tail(q)) + (IF hAlive[Head(q)] THEN 1 ELSE 0)

\* C20: WeakList::len returns the number of pushed entries whose referent
\* still has a strong owner (an entry pushed from a temporary counts as 0),
\* and when len has returned the backing store holds no dead entry.
LenCountsOwned ==
  /\ [](last.op = "list_len" =>
          /\ last.arg = Owned(pushed)
          /\ \A i \in DOMAIN weak_items : hAlive[weak_items[i]])
  /\ [][last'.op = "list_len" =>
          /\ last'.arg = Owned(pushed)
          /\ \A i \in DOMAIN weak_items' : hAlive'[weak_items'[i]]]_vars

\* len has returned 1 for a list that had a dead entry to drop, after a push
\* from a temporary.
LenDroppedDeadWitness ==
  /\ last.op = "list_len" /\ last.arg = 1 /\ Len(pushed) >= 2
  /\ \E i \in DOMAIN pushed : ~hAlive[pushed[i]]
  /\ Len(weak_items) = 1

\* The entries of the sequence of referents q whose referent still has a
\* strong owner, in the order of q.
RECURSIVE OwnedEntries(_)
OwnedEntries(q) ==
  IF q = <<>> THEN <<>>
  ELSE IF hAlive[Head(q)] THEN <<Head(q)>> \o OwnedEntries(Tail(q))
  ELSE OwnedEntries(Tail(q))

\* C21: WeakList::upgrade returns exactly the pushed entries whose referent
\* is alive at the call, once per push and in the order of the pushes; a
\* referent that has been dropped appears in no result.
UpgradeReturnsOwnedInOrder ==
  /\ [](last.op = "list_upgrade" =>
          /\ last.list = OwnedEntries(pushed)
          /\ \A i \in DOMAIN last.list : hAlive[last.list[i]])
  /\ [][last'.op = "list_upgrade" =>
          /\ last'.list = OwnedEntries(pushed)
          /\ \A i \in DOMAIN pushed :
               ~hAlive[pushed[i]] =>
                 \A j \in DOMAIN last'.list : last'.list[j] # pushed[i]]_vars

\* upgrade has returned a referent twice (pushed twice) and left out a dead
\* one.
UpgradeTwiceWitness ==
  /\ last.op = "list_upgrade" /\ Len(last.list) = 2
  /\ last.list[1] = last.list[2]
  /\ Len(pushed) = 3 /\ \E i \in DOMAIN pushed : ~hAlive[pushed[i]]

\* C23: try_deref and try_deref_mut on a PropertyPtr whose target Property
\* has been dropped return None, also while a PropertyRef or PropertyMutRef
\* taken before the drop is outstanding.
DroppedPropertyYieldsNone ==
  [][\A pp \in PPtrs :
       (/\ pptrTarget[pp] # NoProp /\ ~pAlive[pptrTarget[pp]]
        /\ last'.op \in {"p_try_deref", "p_try_deref_mut"}
        /\ last'.ptr = pp) =>
         last'.res = "None"]_vars

\* The number of entries of the sequence of Properties q that have not been
\* dropped.
RECURSIVE LiveProps(_)
LiveProps(q) ==
  IF q = <<>> THEN 0
  ELSE LiveProps(Tail(q)) + (IF pAlive[Head(q)] THEN 1 ELSE 0)

\* C22: dead entries go lazily, by traversal only. The drop of a referent
\* leaves the length of the backing store as it is and a push only adds its
\* own entry; after a complete traversal (WeakList::upgrade, or a
\* PropertyList iterator run until None) the length of the backing store is
\* the number of live entries.
StoreCompactedByTraversalOnly ==
  [][/\ last'.op = "handler_drop" => Len(weak_items') = Len(weak_items)
     /\ last'.op = "list_push" => Len(weak_items') = Len(weak_items) + 1
     /\ last'.op = "list_upgrade" => Len(weak_items') = Owned(pushed)
     /\ last'.op = "p_drop" => Len(plist') = Len(plist)
     /\ last'.op = "plist_push" => Len(plist') = Len(plist) + 1
     /\ (last'.op = "plist_iter" /\ last'.res = "ok") =>
          Len(plist') = LiveProps(plist)]_vars

\* The source of the binding of d is not itself the dest of a binding.
PlainSource(d) == update_callbacks[update_callbacks[d]] = NoProp

\* C24: a binding is a pull-based mirror. bind(d, s) copies s into d at
\* once, a set of another Property leaves a bound d as it is, and when
\* update has returned every bound d holds the current value of its source.
MirrorIsPullBased ==
  [][/\ (last'.op = "bind" /\ last'.res = "ok") =>
          pValue'[last'.cell] = pValue[last'.arg]
     /\ last'.op = "p_set" =>
          \A d \in Keys(update_callbacks) :
            d # last'.cell => pValue'[d] = pValue[d]
     /\ (last'.op = "bind_update" /\ last'.res = "ok") =>
          \A d \in Keys(update_callbacks) :
            pValue'[d] = pValue'[update_callbacks[d]]]_vars

\* C24 (amended): the same, where after update only a bound d whose source is
\* not itself the dest of a binding is said to hold the current value of its
\* source.
MirrorIsPullBasedFromPlainSource ==
  [][/\ (last'.op = "bind" /\ last'.res = "ok") =>
          pValue'[last'.cell] = pValue[last'.arg]
     /\ last'.op = "p_set" =>
          \A d \in Keys(update_callbacks) :
            d # last'.cell => pValue'[d] = pValue[d]
     /\ (last'.op = "bind_update" /\ last'.res = "ok") =>
          \A d \in Keys(update_callbacks) :
            PlainSource(d) => pValue'[d] = pValue'[update_callbacks[d]]]_vars

\* update has run two closures of a chain: the first dest has pulled a value
\* that was set on its source, the second dest is behind its own source.
ChainUpdatedWitness ==
  /\ last.op = "bind_update" /\ last.res = "ok" /\ last.arg >= 2
  /\ \E d \in Keys(update_callbacks) :
       /\ PlainSource(d)
       /\ pValue[d] = pValue[update_callbacks[d]] /\ pValue[d] # 0
       /\ \E c \in Keys(update_callbacks) :
            update_callbacks[c] = d /\ pValue[c] # pValue[d]

\* C25: after unbind(d) no update modifies d (until d is bound again) while
\* the other bindings stay registered and are pulled by update; after clear
\* no binding is registered and update modifies no Property.
UnbindStopsUpdates ==
  /\ [](\A d \in released : update_callbacks[d] = NoProp)
  /\ [][/\ last'.op = "bind_update" =>
             \A d \in AllProps :
               update_callbacks[d] = NoProp => pValue'[d] = pValue[d]
        /\ last'.op = "unbind" =>
             update_callbacks' =
               [update_callbacks EXCEPT ![last'.cell] = NoProp]
        /\ (last'.op = "bind_update" /\ last'.res = "ok") =>
             \A d \in Keys(update_callbacks) :
               PlainSource(d) => pValue'[d] = pValue[update_callbacks[d]]
        /\ last'.op = "bind_clear" => Keys(update_callbacks') = {}]_vars

\* update has pulled a binding while an unbound dest kept a value that its
\* former source no longer has.
UnboundKeptWitness ==
  /\ last.op = "bind_update" /\ last.arg >= 1
  /\ \E d \in released, e \in Keys(update_callbacks) :
       /\ pValue[e] = pValue[update_callbacks[e]]
       /\ pValue[d] # pValue[update_callbacks[e]]

\* The number of times the cell c is listed among the targets ts.
TimesListed(c, ts) == Cardinality({i \in DOMAIN ts : ts[i] = Leaf(c)})

\* The Listeners own the handler h.
Owned_by_Listeners(h) == \E i \in DOMAIN handlers : handlers[i] = h

\* C26: listen_to(a).and(b)...with(f) invokes nothing when it registers; each
\* value change of a listed target invokes f exactly once; a handler that the
\* Listeners do not own (any more, after release_all) is never invoked.
ListenersFireOncePerChange ==
  [][/\ last'.op = "listen" => fired' = NoFired
     /\ \A h \in Handlers, c \in Operands :
          (/\ Owned_by_Listeners(h) /\ TimesListed(c, chain[h]) > 0
           /\ last'.op = "set" /\ last'.cell = c /\ value'[c] # value[c]) =>
            fired'[h] = 1
     /\ last'.op = "release_all" => handlers' = <<>>
     /\ \A h \in Handlers : ~Owned_by_Listeners(h) => fired'[h] = 0]_vars

\* C26 (amended): the same, with one invocation of f per change for every
\* time the changed target is listed.
ListenersFireOncePerListing ==
  [][/\ last'.op = "listen" => fired' = NoFired
     /\ \A h \in Handlers, c \in Operands :
          (/\ Owned_by_Listeners(h) /\ TimesListed(c, chain[h]) > 0
           /\ last'.op = "set" /\ last'.cell = c /\ value'[c] # value[c]) =>
            fired'[h] = TimesListed(c, chain[h])
     /\ last'.op = "release_all" => handlers' = <<>>
     /\ \A h \in Handlers : ~Owned_by_Listeners(h) => fired'[h] = 0]_vars

\* A set has changed the second of two different targets of a chain and has
\* invoked its handler once, while a released handler still has an entry on
\* the list of some cell.
SecondTargetFiredWitness ==
  /\ last.op = "set"
  /\ \E h \in Handlers :
       /\ Owned_by_Listeners(h) /\ Len(chain[h]) = 2
       /\ chain[h][1] # chain[h][2] /\ chain[h][2] = Leaf(last.cell)
       /\ fired[h] = 1
  /\ \E g \in Handlers : ~hAlive[g]

\* The value of the node t over the values its operand cells hold.
RECURSIVE ValueOf(_)
ValueOf(t) ==
  CASE t.type = "leaf" -> value[t.cell]
    [] t.type = "unary" -> 0 - ValueOf(t.src)
    [] t.type = "binary" -> ValueOf(t.lhs) + ValueOf(t.rhs)
    [] t.type = "and" ->
         IF ValueOf(t.lhs) # 0 /\ ValueOf(t.rhs) # 0 THEN 1 ELSE 0

\* C27: while a Property is bound to an expression, every get of it returns
\* the value of the expression over the current values of the operands; once
\* unbound, get returns the value it pulled last, whatever the operands do.
BoundGetFollowsExpression ==
  /\ [](last.op = "field_get" /\ binding =>
          last.res = "ok" /\ last.arg = ValueOf(tree))
  /\ [][(~binding /\ ~binding') => field' = field]_vars
  /\ [][(~binding /\ last'.op = "field_get") =>
          last'.res = "ok" /\ last'.arg = field]_vars

\* The cells on which a guarded view (ObservableRef or ObservableMutRef) is
\* outstanding.
Viewed == {ptrTarget[p] : p \in {q \in Ptrs : refs[q] > 0 \/ mutref[q]}}

\* C28: no guarded view outlives its target: a cell on which an ObservableRef
\* or an ObservableMutRef is outstanding has not been dropped, so the release
\* of a view always finds the cell alive.
NoViewOutlivesTarget ==
  /\ [](\A c \in Viewed : alive[c])
  /\ [][last'.op \in {"ref_release", "mut_release"} /\ last' # last =>
          alive[last'.cell]]_vars

\* The sum of the values of the operands of Expression e that are alive.
LiveSum(e) ==
  sum([i \in DOMAIN SelectSeq(targets[e], LAMBDA c : alive[c]) |->
         value[SelectSeq(targets[e], LAMBDA c : alive[c])[i]]])

\* C29: when the final invalidation of a dropped cell is delivered, the cell
\* already counts as gone: a try_deref of a pointer to it made inside a handler
\* the drop fires answers None, and an Expression whose get is called inside
\* that handler recomputes without the vanished operand.
DropIsSeenAsGone ==
  [][last'.op = "drop" /\ last'.cell = Probed /\ last'.res = "ok" =>
       /\ \A i \in DOMAIN last'.list : last'.list[i] = "None"
       /\ last'.runs > 0 /\ ~dirty'[1] =>
            value'[ValueCell(1)] = LiveSum(1)']_vars

\* The handlers whose closure stores into an operand.
Pokes == {h \in Handlers : callback[h].kind = "poke"}

\* C30: an invalidation that arrives while Expression::get is in progress is
\* not lost: if a handler fired by the store of get into the cached value
\* changes an operand, then after get either dirty is set or the cached value
\* is resolve over the values the operands hold after the change.
InvalidationDuringGetIsKept ==
  [][/\ last'.op = "expr_get" /\ last'.res = "ok"
     /\ \E h \in Pokes : fired'[h] > 0
     /\ value'[Probed] # value[Probed]
     => dirty'[1] \/ value'[ValueCell(1)] = LiveSum(1)']_vars

\* C31: modify_inner called on an ObservableMutRef taken by deref_mut on a
\* live pointer returns a usable in-place view, and the release of that view
\* fires the live handlers of the cell exactly once.
ModifyInnerThroughViewWorks ==
  /\ [][last'.op = "mutref_modify_inner" /\ alive[last'.cell] =>
          last'.res = "ok" /\ modify'[last'.cell]]_vars
  /\ [][last'.op = "modify_release" =>
          \A h \in Handlers :
            LiveOnce(h, last'.cell) => fired'[h] = 1]_vars

\* The handlers registered on c and owned whose closure takes a guarded view
\* of c.
Reentering(c) ==
  {h \in Handlers : /\ hAlive[h] /\ Count(h, on_invalidated[c]) > 0
                    /\ callback[h].kind \in {"try_deref", "try_deref_mut"}
                    /\ callback[h].cell = c}

\* C32: during the notification of a set made through an ObservableMutRef
\* the exclusive borrow of the cell is still held: a handler that attempts
\* try_deref or try_deref_mut on that cell fails fatally.
ReentryDuringGuardedSetIsFatal ==
  [][/\ last'.op = "mutref_set" /\ alive[last'.cell]
     /\ value'[last'.cell] # value[last'.cell]
     /\ Reentering(last'.cell) # {}
     => panic' = MutablyBorrowed /\ last'.res = "panic"]_vars

GuardedSetReenteredWitness ==
  /\ last.op = "mutref_set" /\ panic = MutablyBorrowed
  /\ last.list = <<"panic">>

\* C33: a notification invokes exactly the handlers that were alive when it
\* started: a handler dropped by an earlier handler of the same notification
\* is still invoked, a handler registered from inside a handler is not.
WaveCallsThoseAliveAtStart ==
  [][/\ last'.op = "set" /\ last'.res = "ok"
     /\ value'[last'.cell] # value[last'.cell]
     => \A h \in Handlers :
          fired'[h] = IF hAlive[h] THEN Count(h, on_invalidated[last'.cell])
                      ELSE 0]_vars

DroppedInWaveStillCalledWitness ==
  /\ last.op = "set" /\ last.res = "ok"
  /\ \E g \in Handlers : ~hAlive[g] /\ fired[g] = 1

\* The entries of iterator i that are live for its whole traversal: in the
\* list when the iterator was made, and their Property not dropped at the end.
LiveThroughout(i) == SelectSeq(started[i], LAMBDA q : pAlive'[q])

\* C34: every complete traversal of a PropertyList yields each entry that is
\* live for the whole traversal exactly once, in insertion order, also when
\* another traversal of the list is started or completed between its steps.
TraversalYieldsEachLiveEntryOnce ==
  [][\A i \in Iters :
       last'.op = "plist_next" /\ last'.ptr = i /\ last'.res = "None" =>
         SelectSeq(last'.list,
                   LAMBDA q : \E n \in DOMAIN LiveThroughout(i) :
                                LiveThroughout(i)[n] = q)
           = LiveThroughout(i)]_vars

\* The position of the binding of d in the order o of a visit.
Visit(o, d) == CHOOSE n \in DOMAIN o : o[n] = d

DeadBindings ==
  {d \in Keys(update_callbacks) :
     ~pAlive[d] \/ ~pAlive[update_callbacks[d]]}

\* C36: update on a registry holding a binding whose source or dest has
\* been dropped is a fatal stale-reference error; the dead binding stays
\* registered and no dropped Property is read or written. (A panic of the
\* borrow accounting that comes before the stale dereference counts as the
\* fatal error too; a fault on freed memory is a read of a dropped Property.)
UpdateOfDeadBindingIsFatal ==
  [][last'.op = "bind_update" /\ DeadBindings # {} =>
       /\ panic' \notin {NoPanic, UseAfterFree}
       /\ update_callbacks' = update_callbacks
       /\ \A q \in AllProps : ~pAlive[q] => pValue'[q] = pValue[q]]_vars

\* The operands of Expression e that have not been dropped.
LiveOperands(e) == {c \in {targets[e][i] : i \in DOMAIN targets[e]} : alive[c]}

\* 0 when e has no live operand, otherwise the conjunction of the values of
\* its live operands.
AndOfLive(e) ==
  IF LiveOperands(e) # {} /\ \A c \in LiveOperands(e) : value[c] = 1
    THEN 1 ELSE 0

\* C37: expr::and returns false when none of its operands is live (an empty
\* operand list included), and otherwise the conjunction of the values of
\* the live operands; a vanished operand is ignored.
AndIgnoresVanishedOperands ==
  [][/\ last'.op \in {"expr_new", "expr_get"} /\ last'.res = "ok"
     /\ last'.ptr = 1 /\ resolve'[1] = "and"
     => last'.arg = AndOfLive(1)']_vars

AndOverVanishedOperandWitness ==
  /\ last.op = "expr_get" /\ last.res = "ok" /\ resolve[1] = "and"
  /\ last.runs > 0 /\ last.arg = 1
  /\ \E i \in DOMAIN targets[1] : ~alive[targets[1][i]]

\* The last operation was a set that changed the value of the cell c.
Changed(c) == last'.op = "set" /\ last'.cell = c /\ value'[c] # value[c]

\* C38: registration is not de-duplicated. Every add_invalidation_handler
\* adds an entry of its own; a value change of a cell invokes a live handler
\* once per entry it has on the cell, which is once per occurrence of the
\* cell among the targets of an Expression or of a ListenChain; a dropped
\* handler is not invoked.
RegistrationIsNotDeduplicated ==
  [][/\ last'.op = "add_handler" =>
          Count(last'.arg, on_invalidated'[last'.cell]) =
            Count(last'.arg, on_invalidated[last'.cell]) + 1
     /\ \A c \in Operands : Changed(c) =>
          /\ \A h \in AllHandlers :
               fired'[h] = IF hAlive[h] THEN Count(h, on_invalidated[c])
                           ELSE 0
          /\ built[1] => fired'[ExprHandler(1)] = Count(c, targets[1])
          /\ \A h \in Handlers : hAlive[h] /\ chain[h] # <<>> =>
               fired'[h] = TimesListed(c, chain[h])]_vars

\* A change has invoked the handler of an Expression that lists the cell
\* twice two times, and a handler registered directly twice two times.
RepeatedRegistrationWitness ==
  /\ last.op = "set"
  /\ fired[ExprHandler(1)] = 2
  /\ \E h \in Handlers : fired[h] = 2 /\ chain[h] = <<>>

\* C39: Expression::get leaves no borrow behind. When get has returned, with
\* or without a recompute, the borrow counts of every cell are what they were
\* before the call, so an exclusive access that would have succeeded before
\* the call succeeds after it.
GetLeavesNoBorrow ==
  [][last'.op = "expr_get" /\ last'.res = "ok" =>
       /\ borrow_counts' = borrow_counts
       /\ \A c \in AllCells :
            count_borrow_mut(borrow_counts[c]).msg = NoPanic =>
              count_borrow_mut(borrow_counts'[c]).msg = NoPanic]_vars

\* A get has recomputed while a view of one of its operands was outstanding.
GetWhileOperandViewedWitness ==
  /\ last.op = "expr_get" /\ last.res = "ok" /\ last.runs > 0
  /\ \E i \in DOMAIN targets[1] : borrow_counts[targets[1][i]].immutable > 0

\* The handlers that are alive and have an entry on the value field of e.
Downstream(e) ==
  {h \in AllHandlers : hAlive[h] /\ Count(h, on_invalidated[ValueCell(e)]) > 0}

====
